---- MODULE Spec2Model ----
(***************************************************************************)
(* TCP underlay of the mieru protocolv2 transport:                        *)
(*   pkg/protocolv2/underlay_tcp.go                                        *)
(* One underlay `t` is modelled together with its peer, the transport in  *)
(* both directions, the process-wide replay cache and the sessions that   *)
(* are multiplexed on the underlay.                                        *)
(*                                                                         *)
(* Bytes on the transport are modelled one cell per byte.  A cell is a    *)
(* tuple <<type, key, base, ctr, i, n, plain>>: type "ct" is byte i of    *)
(* the n bytes of the ciphertext of `plain` under (key, nonce base+ctr);  *)
(* type "nonce" is byte i of the explicit nonce `base`; type "pad" is a   *)
(* padding byte.                                                           *)
(***************************************************************************)
EXTENDS Integers, Sequences, FiniteSets, TLC

(***************************************************************************)
(* Bounds of the model.  The three lengths are the sizes the code reads   *)
(* (metadataLength, cipher.DefaultOverhead, cipher.DefaultNonceSize),     *)
(* scaled down; every algorithm below is parametric in them.              *)
(***************************************************************************)
metadataLength == 2
DefaultOverhead == 1
DefaultNonceSize == 1
\* rng.Intn(255) draws a padding length in 0..254; the model draws 0..MaxPad.
MaxPad == 1
\* longest payload, in bytes
MaxPayload == 1
\* largest session ID on the wire (0 is the reserved ID)
MaxSessionID == 2
\* capacity of a session's recvChan and of readySessions
ChanCap == 2
\* segments the peer writes on one connection
MaxPeerWrites == 3
\* writes of the peer an eavesdropper keeps to replay them
MaxCaptured == 2
\* writeOneSegment calls made on the underlay on one connection
MaxWrites == 2
\* connections accepted or dialed one after the other in one process
MaxConns == 2
\* entries the replay cache holds before it evicts the oldest
CacheCap == 2
\* users enabled on the server (one candidate cipher each)
NumUsers == 2
\* tasks that call writeOneSegment concurrently
NumWriters == 2
\* tasks calling Close on one underlay
NumClosers == 2
\* calls of the exported log functions the program makes
MaxCalls == 3
\* RemoveSession calls that tasks other than the event loop make
MaxRemoves == 1

\* ---------------------------------------------------------------- protocols
closeConnRequest == 0
closeConnResponse == 1
openSessionRequest == 2
openSessionResponse == 3
closeSessionRequest == 4
closeSessionResponse == 5
dataProtocol == 6
ackProtocol == 7
heartbeatProtocol == 8
\* a tag this version does not know
futureProtocol == 9

isSessionProtocol(p) ==
    p \in {closeConnRequest, closeConnResponse, openSessionRequest,
           openSessionResponse, closeSessionRequest, closeSessionResponse}

isDataAckProtocol(p) == p \in {dataProtocol, ackProtocol, heartbeatProtocol}

SessionIDs == 0..MaxSessionID

\* ---------------------------------------------------------------- segments
\* A segment: the metadata fields the underlay uses, and the payload.
Segment(p, sid, payload) ==
    [protocol |-> p, sessionID |-> sid, payloadLen |-> Len(payload),
     prefixLen |-> 0, suffixLen |-> 0, payload |-> payload]

NoSegment == Segment(closeConnRequest, 0, <<>>)

\* sessionStruct.Marshal / dataAckStruct.Marshal: metadataLength bytes that
\* carry the fields; a sessionStruct has no prefixLen field.
MarshalSession(seg) ==
    <<seg.protocol, seg.sessionID, seg.payloadLen, 0, seg.suffixLen>>

MarshalDataAck(seg) ==
    <<seg.protocol, seg.sessionID, seg.payloadLen, seg.prefixLen, seg.suffixLen>>

\* field i of decrypted metadata (bytes that are not there read as 0)
Field(m, i) == IF i <= Len(m) THEN m[i] ELSE 0

\* Unmarshal of the decrypted metadata into the struct named by its first byte.
UnmarshalSession(m) ==
    [protocol |-> Field(m, 1), sessionID |-> Field(m, 2), payloadLen |-> Field(m, 3),
     prefixLen |-> 0, suffixLen |-> Field(m, 5), payload |-> <<>>]

UnmarshalDataAck(m) ==
    [protocol |-> Field(m, 1), sessionID |-> Field(m, 2), payloadLen |-> Field(m, 3),
     prefixLen |-> Field(m, 4), suffixLen |-> Field(m, 5), payload |-> <<>>]

\* ------------------------------------------------------------------- cells
CtCell == "ct"
NonceCell == "nonce"
PadCell == "pad"

\* the n bytes of the ciphertext of plain under key and nonce base+ctr
CtCells(key, base, ctr, plain, n) ==
    [i \in 1..n |-> <<CtCell, key, base, ctr, i, n,
                      IF i <= DefaultOverhead THEN <<>> ELSE plain>>]

NonceCells(base, n) == [i \in 1..n |-> <<NonceCell, 0, base, 0, i, n, <<>>>>]

\* newPadding: n random bytes, authenticated by nothing
newPadding(n) == [i \in 1..n |-> <<PadCell, 0, 0, 0, 0, 0, <<>>>>]

\* the length of a plaintext on the wire: marshalled metadata is metadataLength
\* bytes long, a payload is as long as its byte sequence
PlainLen(plain, isMeta) == IF isMeta THEN metadataLength ELSE Len(plain)

Take(s, n) == SubSeq(s, 1, n)
Drop(s, n) == SubSeq(s, n + 1, Len(s))

\* ------------------------------------------------------------ block cipher
\* A cipher handle: the key, the implicit-nonce mode, and the implicit nonce
\* (base = 0: none yet; otherwise the next nonce is base+ctr).  key = 0 is nil.
\* entry is the place the handle has in the list of a server's candidates
\* (0: it is in no such list).
NilCipher == [key |-> 0, entry |-> 0, implicit |-> FALSE, base |-> 0, ctr |-> 0]

NewCipher(key) == [key |-> key, entry |-> 0, implicit |-> TRUE, base |-> 0, ctr |-> 0]

\* Clone: an independent handle with the same key, mode and implicit nonce.
Clone(c) == c

\* SetImplicitNonceMode: turning the mode off clears the implicit nonce.
SetImplicitNonceMode(c, enable) ==
    IF enable THEN [c EXCEPT !.implicit = TRUE]
    ELSE [c EXCEPT !.implicit = FALSE, !.base = 0, !.ctr = 0]

\* Encrypt: the first ciphertext of a handle carries a fresh nonce in front;
\* in implicit-nonce mode the later ones carry none and use the next counter.
Encrypt(c, plain, isMeta, fresh) ==
    LET n == PlainLen(plain, isMeta) + DefaultOverhead IN
    IF c.base = 0 \/ ~c.implicit
    THEN [out |-> NonceCells(fresh, DefaultNonceSize) \o CtCells(c.key, fresh, 0, plain, n),
          c |-> IF c.implicit THEN [c EXCEPT !.base = fresh, !.ctr = 1] ELSE c]
    ELSE [out |-> CtCells(c.key, c.base, c.ctr, plain, n),
          c |-> [c EXCEPT !.ctr = c.ctr + 1]]

\* buf is exactly the whole ciphertext made under (key, base+ctr)
IsCiphertext(buf, key, base, ctr) ==
    /\ Len(buf) > DefaultOverhead
    /\ buf[1][6] = Len(buf)
    /\ \A i \in 1..Len(buf) :
          /\ buf[i][1] = CtCell
          /\ buf[i][2] = key
          /\ buf[i][3] = base
          /\ buf[i][4] = ctr
          /\ buf[i][5] = i
          /\ buf[i][7] = IF i <= DefaultOverhead THEN <<>> ELSE buf[Len(buf)][7]

IsNonce(buf) ==
    /\ Len(buf) = DefaultNonceSize
    /\ \A i \in 1..Len(buf) :
          /\ buf[i][1] = NonceCell
          /\ buf[i][5] = i
          /\ buf[i][3] = buf[1][3]

\* Decrypt: authenticates buf under the key and the expected nonce (read from
\* the front of buf while the handle has no implicit nonce yet).
Decrypt(c, buf) ==
    IF c.base = 0 \/ ~c.implicit
    THEN LET nonce == Take(buf, DefaultNonceSize)
             body == Drop(buf, DefaultNonceSize)
         IN IF Len(buf) > DefaultNonceSize /\ IsNonce(nonce)
               /\ IsCiphertext(body, c.key, nonce[1][3], 0)
            THEN [ok |-> TRUE, plain |-> body[Len(body)][7], len |-> Len(body) - DefaultOverhead,
                  c |-> IF c.implicit THEN [c EXCEPT !.base = nonce[1][3], !.ctr = 1] ELSE c]
            ELSE [ok |-> FALSE, plain |-> <<>>, len |-> 0, c |-> c]
    ELSE IF IsCiphertext(buf, c.key, c.base, c.ctr)
         THEN [ok |-> TRUE, plain |-> buf[Len(buf)][7], len |-> Len(buf) - DefaultOverhead,
               c |-> [c EXCEPT !.ctr = c.ctr + 1]]
         ELSE [ok |-> FALSE, plain |-> <<>>, len |-> 0, c |-> c]

RECURSIVE SelectDecrypt(_, _)
\* cipher.SelectDecrypt: the first candidate, in list order, that authenticates
SelectDecrypt(buf, cands) ==
    IF cands = <<>> THEN [ok |-> FALSE, plain |-> <<>>, len |-> 0, c |-> NilCipher]
    ELSE LET r == Decrypt(Head(cands), buf) IN
         IF r.ok THEN r ELSE SelectDecrypt(buf, Tail(cands))

CloneBlockCiphers(cands) == [i \in 1..Len(cands) |-> Clone(cands[i])]

\* ------------------------------------------------------------ replay cache
\* replay.Cache: the tag prefixes seen within the window, oldest first.
\* IsDuplicate answers whether the prefix is in the cache and records it when
\* it is not, evicting the oldest entry of a full cache.
IsDuplicate(cache, prefix) ==
    IF \E i \in 1..Len(cache) : cache[i] = prefix
    THEN [dup |-> TRUE, cache |-> cache]
    ELSE [dup |-> FALSE,
          cache |-> IF Len(cache) >= CacheCap
                    THEN Append(Tail(cache), prefix)
                    ELSE Append(cache, prefix)]

\* ------------------------------------------------------- readOneSegment
\* The outcome of a read: status "ok" (seg returned), "err" (the error kind),
\* or "block" (io.ReadFull waits for bytes that are not there yet); wire is
\* what is left unread, ns and ks what the call adds to replay.NewSession and
\* replay.KnownSession.
ReadResult(status, err, seg, wire, recv, cache, ns, ks) ==
    [status |-> status, err |-> err, seg |-> seg, wire |-> wire, recv |-> recv,
     cache |-> cache, ns |-> ns, ks |-> ks]

\* io.ReadFull(t.conn, buf) fails when the connection ends before len(buf) bytes
Short(closed, wire, recv, cache, ns, ks) ==
    IF closed THEN ReadResult("err", "NetworkIO", NoSegment, <<>>, recv, cache, ns, ks)
    ELSE ReadResult("block", "", NoSegment, wire, recv, cache, ns, ks)

readSessionSegment(ss, wire, recv, cache, ks, closed) ==
    LET n == ss.payloadLen + DefaultOverhead IN
    IF ss.payloadLen > 0 /\ Len(wire) < n THEN Short(closed, wire, recv, cache, 0, ks)
    ELSE
    LET hasPayload == ss.payloadLen > 0
        encryptedPayload == IF hasPayload THEN Take(wire, n) ELSE <<>>
        wire1 == IF hasPayload THEN Drop(wire, n) ELSE wire
        dup == IF hasPayload THEN IsDuplicate(cache, Take(encryptedPayload, DefaultOverhead))
               ELSE [dup |-> FALSE, cache |-> cache]
        ks1 == IF dup.dup THEN ks + 1 ELSE ks
        d == IF hasPayload THEN Decrypt(recv, encryptedPayload)
             ELSE [ok |-> TRUE, plain |-> <<>>, len |-> 0, c |-> recv]
    IN IF ~d.ok THEN ReadResult("err", "DecryptFailed", NoSegment, wire1, recv, dup.cache, 0, ks1)
       ELSE IF Len(wire1) < ss.suffixLen THEN Short(closed, wire, recv, cache, 0, ks)
       ELSE ReadResult("ok", "", [ss EXCEPT !.payload = d.plain],
                       Drop(wire1, ss.suffixLen), d.c, dup.cache, 0, ks1)

readDataAckSegment(das, wire, recv, cache, ks, closed) ==
    LET n == das.payloadLen + DefaultOverhead IN
    IF Len(wire) < das.prefixLen THEN Short(closed, wire, recv, cache, 0, ks)
    ELSE
    LET wire0 == Drop(wire, das.prefixLen) IN
    IF das.payloadLen > 0 /\ Len(wire0) < n THEN Short(closed, wire, recv, cache, 0, ks)
    ELSE
    LET hasPayload == das.payloadLen > 0
        encryptedPayload == IF hasPayload THEN Take(wire0, n) ELSE <<>>
        wire1 == IF hasPayload THEN Drop(wire0, n) ELSE wire0
        dup == IF hasPayload THEN IsDuplicate(cache, Take(encryptedPayload, DefaultOverhead))
               ELSE [dup |-> FALSE, cache |-> cache]
        ks1 == IF dup.dup THEN ks + 1 ELSE ks
        d == IF hasPayload THEN Decrypt(recv, encryptedPayload)
             ELSE [ok |-> TRUE, plain |-> <<>>, len |-> 0, c |-> recv]
    IN IF ~d.ok THEN ReadResult("err", "DecryptFailed", NoSegment, wire1, recv, dup.cache, 0, ks1)
       ELSE IF Len(wire1) < das.suffixLen THEN Short(closed, wire, recv, cache, 0, ks)
       ELSE ReadResult("ok", "", [das EXCEPT !.payload = d.plain],
                       Drop(wire1, das.suffixLen), d.c, dup.cache, 0, ks1)

\* a readOneSegment whose first read on a server decrypts with the selected
\* cipher and leaves t.recv nil
readDecryptedNoAssign(d, recv1, wire1, cache1, ks1, closed, wire, recv, cache) ==
    LET recv2 == IF recv1 = NilCipher THEN NilCipher ELSE d.c IN
    IF ~d.ok
    THEN ReadResult("err", IF recv1 = NilCipher THEN "CipherSelectionFailed" ELSE "DecryptFailed",
                    NoSegment, wire1, recv1, cache1, 0, ks1)
    ELSE IF d.len # metadataLength
    THEN ReadResult("err", "FramingError", NoSegment, wire1, recv2, cache1, 0, ks1)
    ELSE
    LET p == Field(d.plain, 1)
        r == IF isSessionProtocol(p)
             THEN readSessionSegment(UnmarshalSession(d.plain), wire1, recv2, cache1, ks1, closed)
             ELSE readDataAckSegment(UnmarshalDataAck(d.plain), wire1, recv2, cache1, ks1, closed)
    IN IF ~isSessionProtocol(p) /\ ~isDataAckProtocol(p)
       THEN ReadResult("err", "UnknownProtocol", NoSegment, wire1, recv2, cache1, 0, ks1)
       ELSE IF r.status = "block"
       THEN ReadResult("block", "", NoSegment, wire, recv, cache, 0, 0)
       ELSE r

\* What follows the decryption of the metadata in readOneSegment.  recv1 is
\* t.recv when the decryption starts (nil on a server's first read, where the
\* selected cipher is then cloned into t.recv).
readDecrypted(d, recv1, wire1, cache1, ks1, closed, wire, recv, cache) ==
    LET recv2 == IF recv1 = NilCipher THEN Clone(d.c) ELSE d.c IN
    IF ~d.ok
    THEN ReadResult("err", IF recv1 = NilCipher THEN "CipherSelectionFailed" ELSE "DecryptFailed",
                    NoSegment, wire1, recv1, cache1, 0, ks1)
    ELSE IF d.len # metadataLength
    THEN ReadResult("err", "FramingError", NoSegment, wire1, recv2, cache1, 0, ks1)
    ELSE
    LET p == Field(d.plain, 1)
        r == IF isSessionProtocol(p)
             THEN readSessionSegment(UnmarshalSession(d.plain), wire1, recv2, cache1, ks1, closed)
             ELSE readDataAckSegment(UnmarshalDataAck(d.plain), wire1, recv2, cache1, ks1, closed)
    IN IF ~isSessionProtocol(p) /\ ~isDataAckProtocol(p)
       THEN ReadResult("err", "UnknownProtocol", NoSegment, wire1, recv2, cache1, 0, ks1)
       ELSE IF r.status = "block"
       THEN ReadResult("block", "", NoSegment, wire, recv, cache, 0, 0)
       ELSE r

\* a readOneSegment that treats a duplicate on the first read like one on a
\* later read
readOneSegmentCountOnly(client, rcv, cands, wire, cache, closed) ==
    LET firstRead == rcv = NilCipher
        readLen == metadataLength + DefaultOverhead
                   + (IF firstRead THEN DefaultNonceSize ELSE 0)
    IN IF Len(wire) < readLen THEN Short(closed, wire, rcv, cache, 0, 0)
       ELSE
       LET encryptedMeta == Take(wire, readLen)
           wire1 == Drop(wire, readLen)
           dup == IsDuplicate(cache, Take(encryptedMeta, DefaultOverhead))
           ks1 == IF dup.dup THEN 1 ELSE 0
           recv1 == IF firstRead /\ client THEN Clone(cands[1]) ELSE rcv
           d == IF recv1 = NilCipher
                THEN SelectDecrypt(encryptedMeta, CloneBlockCiphers(cands))
                ELSE Decrypt(recv1, encryptedMeta)
       IN readDecrypted(d, recv1, wire1, dup.cache, ks1, closed, wire, rcv, cache)

\* a readOneSegment whose first read on a server tries the candidates from
\* the last one of the list to the first
readOneSegmentLastCandidate(client, rcv, cands, wire, cache, closed) ==
    LET firstRead == rcv = NilCipher
        readLen == metadataLength + DefaultOverhead
                   + (IF firstRead THEN DefaultNonceSize ELSE 0)
    IN IF Len(wire) < readLen THEN Short(closed, wire, rcv, cache, 0, 0)
       ELSE
       LET encryptedMeta == Take(wire, readLen)
           wire1 == Drop(wire, readLen)
           dup == IsDuplicate(cache, Take(encryptedMeta, DefaultOverhead))
       IN IF dup.dup /\ firstRead
          THEN ReadResult("err", "ReplayDetected", NoSegment, wire1, rcv, dup.cache, 1, 0)
          ELSE
          LET ks1 == IF dup.dup THEN 1 ELSE 0
              recv1 == IF firstRead /\ client THEN Clone(cands[1]) ELSE rcv
              last == [i \in 1..Len(cands) |-> cands[Len(cands) + 1 - i]]
              d == IF recv1 = NilCipher
                   THEN SelectDecrypt(encryptedMeta, CloneBlockCiphers(last))
                   ELSE Decrypt(recv1, encryptedMeta)
          IN readDecrypted(d, recv1, wire1, dup.cache, ks1, closed, wire, rcv, cache)

\* a readOneSegment that treats a duplicate on a later read as one on the first
readOneSegmentRejectEvery(client, rcv, cands, wire, cache, closed) ==
    LET firstRead == rcv = NilCipher
        readLen == metadataLength + DefaultOverhead
                   + (IF firstRead THEN DefaultNonceSize ELSE 0)
    IN IF Len(wire) < readLen THEN Short(closed, wire, rcv, cache, 0, 0)
       ELSE
       LET encryptedMeta == Take(wire, readLen)
           wire1 == Drop(wire, readLen)
           dup == IsDuplicate(cache, Take(encryptedMeta, DefaultOverhead))
       IN IF dup.dup
          THEN ReadResult("err", "ReplayDetected", NoSegment, wire1, rcv, dup.cache, 1, 0)
          ELSE
          LET recv1 == IF firstRead /\ client THEN Clone(cands[1]) ELSE rcv
              d == IF recv1 = NilCipher
                   THEN SelectDecrypt(encryptedMeta, CloneBlockCiphers(cands))
                   ELSE Decrypt(recv1, encryptedMeta)
          IN readDecrypted(d, recv1, wire1, dup.cache, 0, closed, wire, rcv, cache)

\* TCPUnderlay.readOneSegment on an underlay with the given role, receive
\* cipher and candidates, reading from wire.
readOneSegment(client, rcv, cands, wire, cache, closed) ==
    LET firstRead == rcv = NilCipher
        readLen == metadataLength + DefaultOverhead
                   + (IF firstRead THEN DefaultNonceSize ELSE 0)
    IN IF Len(wire) < readLen THEN Short(closed, wire, rcv, cache, 0, 0)
       ELSE
       LET encryptedMeta == Take(wire, readLen)
           wire1 == Drop(wire, readLen)
           dup == IsDuplicate(cache, Take(encryptedMeta, DefaultOverhead))
       IN IF dup.dup /\ firstRead
          THEN ReadResult("err", "ReplayDetected", NoSegment, wire1, rcv, dup.cache, 1, 0)
          ELSE
          LET ks1 == IF dup.dup THEN 1 ELSE 0
              recv1 == IF firstRead /\ client THEN Clone(cands[1]) ELSE rcv
              d == IF recv1 = NilCipher
                   THEN SelectDecrypt(encryptedMeta, CloneBlockCiphers(cands))
                   ELSE Decrypt(recv1, encryptedMeta)
          IN readDecrypted(d, recv1, wire1, dup.cache, ks1, closed, wire, rcv, cache)

\* ------------------------------------------------------ writeOneSegment
\* a maybeInitSendBlockCipher that takes the first candidate on a server
\* whose receive cipher is not there yet
maybeInitSendBlockCipherAnyRole(isClient, send, recv, candidates) ==
    IF send # NilCipher THEN [err |-> "", send |-> send]
    ELSE IF isClient \/ recv = NilCipher THEN [err |-> "", send |-> Clone(candidates[1])]
    ELSE [err |-> "",
          send |-> SetImplicitNonceMode(SetImplicitNonceMode(Clone(recv), FALSE), TRUE)]

\* TCPUnderlay.maybeInitSendBlockCipher
maybeInitSendBlockCipher(isClient, send, recv, candidates) ==
    IF send # NilCipher THEN [err |-> "", send |-> send]
    ELSE IF isClient THEN [err |-> "", send |-> Clone(candidates[1])]
    ELSE IF recv # NilCipher
    THEN [err |-> "",
          send |-> SetImplicitNonceMode(SetImplicitNonceMode(Clone(recv), FALSE), TRUE)]
    ELSE [err |-> "RecvCipherNotReady", send |-> send]

\* The bytes of a session-control segment, in the order writeOneSegment
\* appends them to dataToSend.
SessionLayout(encryptedMetadata, encryptedPayload, padding) ==
    encryptedMetadata \o encryptedPayload \o padding

\* a data-ack layout with both paddings behind the payload
DataAckLayoutPaddingLast(encryptedMetadata, padding1, encryptedPayload, padding2) ==
    encryptedMetadata \o encryptedPayload \o padding1 \o padding2

\* The bytes of a data-ack segment, in the order writeOneSegment appends them.
DataAckLayout(encryptedMetadata, padding1, encryptedPayload, padding2) ==
    encryptedMetadata \o padding1 \o encryptedPayload \o padding2

\* writeOneSegment between Lock and conn.Write: the padding lengths drawn,
\* the cipher initialised, metadata and payload encrypted, dataToSend built.
\* fresh is the random nonce the cipher draws for its first ciphertext.
buildDataToSend(isClient, send, recv, candidates, seg, paddingLen1, paddingLen2, fresh) ==
    LET init == maybeInitSendBlockCipher(isClient, send, recv, candidates) IN
    IF ~isSessionProtocol(seg.protocol) /\ ~isDataAckProtocol(seg.protocol)
    THEN [err |-> "InvalidArgument", send |-> send, data |-> <<>>, seg |-> seg]
    ELSE IF init.err # "" THEN [err |-> init.err, send |-> send, data |-> <<>>, seg |-> seg]
    ELSE IF isSessionProtocol(seg.protocol)
    THEN LET ss == [seg EXCEPT !.suffixLen = paddingLen2, !.prefixLen = 0]
             m == Encrypt(init.send, MarshalSession(ss), TRUE, fresh)
             pl == IF Len(seg.payload) > 0 THEN Encrypt(m.c, seg.payload, FALSE, fresh)
                   ELSE [out |-> <<>>, c |-> m.c]
         IN [err |-> "", send |-> pl.c, seg |-> ss,
             data |-> SessionLayout(m.out, pl.out, newPadding(paddingLen2))]
    ELSE LET das == [seg EXCEPT !.prefixLen = paddingLen1, !.suffixLen = paddingLen2]
             m == Encrypt(init.send, MarshalDataAck(das), TRUE, fresh)
             pl == IF Len(seg.payload) > 0 THEN Encrypt(m.c, seg.payload, FALSE, fresh)
                   ELSE [out |-> <<>>, c |-> m.c]
         IN [err |-> "", send |-> pl.c, seg |-> das,
             data |-> DataAckLayout(m.out, newPadding(paddingLen1), pl.out,
                                    newPadding(paddingLen2))]

\* ---------------------------------------------------------------- state
VARIABLES
    conn,           \* number of the current connection of this process
    isClient,       \* baseUnderlay.isClient
    clientKey,      \* the key of the client end's user
    send,           \* TCPUnderlay.send
    recv,           \* TCPUnderlay.recv
    candidates,     \* TCPUnderlay.candidates
    sendMutex,      \* holder of TCPUnderlay.sendMutex (0: unlocked)
    done,           \* baseUnderlay.done is closed
    connClosed,     \* t.conn.Close() was called
    ctxDone,        \* the context given to RunEventLoop is cancelled
    inEOF,          \* the peer's end of the stream is gone
    peer,           \* the peer underlay: its ciphers, candidates, replay cache
    wireIn,         \* bytes written by the peer, not yet read by t
    wireOut,        \* every byte t wrote on this connection
    outPos,         \* how many bytes of wireOut the peer has read
    honest,         \* the bytes of wireIn come from the peer's writeOneSegment
    captured,       \* the first writes an eavesdropper saw go to a server
    replayCache,    \* tcpReplayCache
    NewSession,     \* replay.NewSession
    KnownSession,   \* replay.KnownSession
    wpc,            \* where each writer task is in writeOneSegment
    wseg,           \* the segment a writer task was called with
    wdata,          \* dataToSend of a writer task
    werr,           \* the error a writer task's call returns
    wcount,         \* conn.Write calls made by a writer task's current call
    nWrites,        \* writeOneSegment calls started on this connection
    nPeerWrites,    \* segments the peer wrote on this connection
    inSent,         \* the peer's writes not yet read by t: segment and byte count
    outSent,        \* t's writes, in transport order: segment and byte count
    lastRead,       \* outcome of t's latest readOneSegment
    peerGot,        \* the segments the peer's reads returned, and bytes consumed
    peerErr,        \* the error of the peer's failed read
    sessionMap,     \* the IDs of the sessions in t.sessionMap
    recvChan,       \* each session's recvChan: segments, with their read index
    loops,          \* each session's running loops, counted by its wg
    sessDone,       \* each session's done latch
    ready,          \* each session's ready latch
    sconn,          \* each session's conn refers to this underlay
    sobj,           \* under each ID, the number of session objects the table has held
    readySessions,  \* t.readySessions: the IDs of the sessions published
    loop,           \* where RunEventLoop is, and the segment it holds
    nRead,          \* segments readOneSegment has returned to the event loop
    ownerClosed,    \* the owner of the underlay saw RunEventLoop return
    closers,        \* where each task calling t.Close() is, and what its call returned
    closes,         \* calls of baseUnderlay.Close() and of t.conn.Close() made so far
    ctor,           \* the call of NewTCPUnderlay: its arguments and what it returned
    StdDisable,     \* log.StdDisable
    called,         \* the exported log functions called so far, in order
    logged,         \* what the standard logger wrote: level and function
    exitStatus,     \* the status the process exited with (-1: it runs)
    rpc,            \* whether a readOneSegment call is using t.recv
    adding,         \* the ID of the session an AddSession call is registering (0: none)
    remover         \* a RemoveSession call of a task other than the event loop

wireVars == <<conn, isClient, clientKey, send, recv, candidates, sendMutex, done,
              connClosed, ctxDone, inEOF, peer, wireIn, wireOut, outPos, honest,
              captured, replayCache, NewSession, KnownSession, wpc, wseg, wdata,
              werr, wcount, nWrites, nPeerWrites, inSent, outSent, lastRead,
              peerGot, peerErr>>

cfgVars == <<conn, isClient, clientKey, candidates>>
latchVars == <<done, connClosed, ctxDone, inEOF>>
cacheVars == <<replayCache, NewSession, KnownSession>>
taskVars == <<wpc, wseg, wdata, werr, wcount, nWrites>>
outVars == <<wireOut, outSent>>
peerVars == <<peer, outPos, peerGot, peerErr>>
inVars == <<wireIn, inSent, nPeerWrites, honest, captured>>

sessVars == <<sessionMap, recvChan, loops, sessDone, ready, sconn, sobj, readySessions>>
loopVars == <<loop, nRead, ownerClosed>>
logVars == <<StdDisable, called, logged, exitStatus>>
stepVars == <<rpc, adding, remover>>
extVars == <<closers, ctor, logVars, stepVars>>

vars == <<wireVars, sessVars, loopVars, closes, extVars>>

Writers == 1..NumWriters

Payload(n) == [i \in 1..n |-> 7]

\* the key of the i-th user of a server: the last user has the password of
\* the user before
UserKey(i) == IF i > NumUsers THEN NumUsers ELSE i

\* the ciphers enabled on a server, in list order
ServerCandidates ==
    [i \in 1..NumUsers + 1 |-> [NewCipher(UserKey(i)) EXCEPT !.entry = i]]

\* the random nonce an end draws for the first ciphertext of a connection
FreshNonce(c, byPeer) == IF byPeer THEN 2 * c ELSE 2 * c - 1

NoRead == [status |-> "none", err |-> "", seg |-> NoSegment, n |-> 0,
           want |-> NoSegment, wantN |-> 0, first |-> FALSE]

\* The first exchange of a connection: the client's writeOneSegment of an
\* open-session request for session 1 and the server's readOneSegment of it.
Handshake(key, fresh) ==
    LET w == buildDataToSend(TRUE, NilCipher, NilCipher, <<NewCipher(key)>>,
                             Segment(openSessionRequest, 1, <<>>), 0, 0, fresh)
        r == readOneSegment(FALSE, NilCipher, ServerCandidates, w.data, <<>>, FALSE)
    IN [clientSend |-> w.send, serverRecv |-> r.recv, data |-> w.data]

\* A TCPUnderlay right after construction (NewTCPUnderlay on the client, the
\* accept path on the server) and its peer; with shaken, after the first
\* exchange of the connection.
FreshUnderlay(client, key, c, shaken) ==
    LET h == Handshake(key, FreshNonce(c, ~client)) IN
    [send |-> IF shaken /\ client THEN h.clientSend ELSE NilCipher,
     recv |-> IF shaken /\ ~client THEN h.serverRecv ELSE NilCipher,
     candidates |-> IF client THEN <<NewCipher(key)>> ELSE ServerCandidates,
     peer |-> [send |-> IF shaken /\ ~client THEN h.clientSend ELSE NilCipher,
               recv |-> IF shaken /\ client THEN h.serverRecv ELSE NilCipher,
               candidates |-> IF client THEN ServerCandidates ELSE <<NewCipher(key)>>,
               cache |-> <<>>]]

\* the IDs a session can have; 0 is reserved
SIDs == 1..MaxSessionID

\* the event loop between two segments
LoopAt(pc) == [pc |-> pc, seg |-> NoSegment, idx |-> 0, to |-> 0, cont |-> "", err |-> ""]

\* the event loop after RunEventLoop returned err
Returned(err) == [LoopAt("returned") EXCEPT !.err = err]

\* the event loop holding a segment for session sid's recvChan
Holding(seg, idx, sid, cont) ==
    [pc |-> "handoff", seg |-> seg, idx |-> idx, to |-> sid, cont |-> cont, err |-> ""]

\* the event loop back at the top after it dropped seg: nobody got it, and the
\* loop's variable seg holds it until the next read
Skipped(seg) == [LoopAt("top") EXCEPT !.seg = seg]

\* the two loops AddSession starts for a session
BothLoops == {"input", "output"}

NewUnderlay(client, key, shaken) ==
    LET f == FreshUnderlay(client, key, conn + 1, shaken) IN
    /\ isClient' = client
    /\ clientKey' = key
    /\ send' = f.send
    /\ recv' = f.recv
    /\ candidates' = f.candidates
    /\ peer' = f.peer
    /\ sendMutex' = 0
    /\ done' = FALSE
    /\ connClosed' = FALSE
    /\ inEOF' = FALSE
    /\ wireOut' = <<>>
    /\ outPos' = 0
    /\ wpc' = [w \in Writers |-> "idle"]
    /\ wseg' = [w \in Writers |-> NoSegment]
    /\ wdata' = [w \in Writers |-> <<>>]
    /\ werr' = [w \in Writers |-> ""]
    /\ wcount' = [w \in Writers |-> 0]
    /\ nWrites' = 0
    /\ nPeerWrites' = 0
    /\ inSent' = <<>>
    /\ outSent' = <<>>
    /\ lastRead' = NoRead
    /\ peerGot' = <<>>
    /\ peerErr' = ""

\* the tasks that may call t.Close(): the mux, a session, the owner
Closers == 1..NumClosers

\* no Close call yet
NoCloses == [base |-> 0, conn |-> 0]

\* a task that has not called t.Close()
Idle == [pc |-> "idle", ret |-> ""]

\* NewTCPUnderlay was called with a TCP network and a stateful cipher and its
\* dial succeeded (client), or the underlay was made for an accepted
\* connection (server)
Constructed(client) ==
    [network |-> "tcp", stateless |-> FALSE, laddr |-> "", reachable |-> TRUE,
     called |-> client, t |-> TRUE, err |-> "", dials |-> IF client THEN 1 ELSE 0]

\* the log package when the program starts: StdDisable = true
LogStart ==
    /\ StdDisable = TRUE
    /\ called = <<>>
    /\ logged = <<>>
    /\ exitStatus = -1

\* The fields of the underlay, of its sessions and of its event loop, and the
\* tasks around it, when the underlay is made.
\* no RemoveSession call of another task is under way, none has been made
NoRemove == [pc |-> "idle", sid |-> 0, err |-> "", n |-> 0]

InitFields(client, key, shaken) ==
    LET f == FreshUnderlay(client, key, 1, shaken) IN
    /\ conn = 1
    /\ isClient = client
    /\ clientKey = key
    /\ send = f.send
    /\ recv = f.recv
    /\ candidates = f.candidates
    /\ peer = f.peer
    /\ sendMutex = 0
    /\ done = FALSE
    /\ connClosed = FALSE
    /\ ctxDone = FALSE
    /\ inEOF = FALSE
    /\ wireOut = <<>>
    /\ outPos = 0
    /\ captured = <<>>
    /\ NewSession = 0
    /\ KnownSession = 0
    /\ wpc = [w \in Writers |-> "idle"]
    /\ wseg = [w \in Writers |-> NoSegment]
    /\ wdata = [w \in Writers |-> <<>>]
    /\ werr = [w \in Writers |-> ""]
    /\ wcount = [w \in Writers |-> 0]
    /\ nWrites = 0
    /\ nPeerWrites = 0
    /\ inSent = <<>>
    /\ outSent = <<>>
    /\ lastRead = NoRead
    /\ peerGot = <<>>
    /\ peerErr = ""
    /\ sessionMap = IF client /\ shaken THEN {1} ELSE {}
    /\ recvChan = [s \in SIDs |-> <<>>]
    /\ loops = [s \in SIDs |-> IF client /\ shaken /\ s = 1 THEN BothLoops ELSE {}]
    /\ sessDone = [s \in SIDs |-> FALSE]
    /\ ready = [s \in SIDs |-> client /\ shaken /\ s = 1]
    /\ sconn = [s \in SIDs |-> client /\ shaken /\ s = 1]
    /\ sobj = [s \in SIDs |-> IF client /\ shaken /\ s = 1 THEN 1 ELSE 0]
    /\ readySessions = <<>>
    /\ loop = LoopAt("top")
    /\ nRead = 0
    /\ ownerClosed = FALSE
    /\ closers = [c \in Closers |-> Idle]
    /\ closes = NoCloses
    /\ rpc = "idle"
    /\ adding = 0
    /\ remover = NoRemove
    /\ LogStart

InitUnderlay(client, key, shaken) ==
    /\ InitFields(client, key, shaken)
    /\ ctor = Constructed(client)

\* a connection nobody has written to, in a process with an empty replay cache
QuietStart ==
    /\ wireIn = <<>>
    /\ honest = TRUE
    /\ replayCache = <<>>

\* the keys a client may hold: an enabled user's, or one the server does not know
ClientKeys == {NumUsers, NumUsers + 1}

\* the segments written in the transport specification
WireSegments ==
    {Segment(p, 1, Payload(n)) : p \in {openSessionRequest, dataProtocol}, n \in 0..MaxPayload}

\* ------------------------------------------------- writeOneSegment, by step
\* a Lock that does not wait for the holder
CanLockNoWait(mutex) == TRUE

\* a Lock that is also granted while the holder is at its conn.Write, as if
\* the mutex were released between Encrypt and Write
CanLockWhileWriting(mutex) == IF mutex = 0 THEN TRUE ELSE wpc[mutex] = "write"

\* sync.Mutex.Lock returns once the mutex is unlocked
CanLock(mutex) == mutex = 0

\* t.sendMutex.Lock() of a writeOneSegment(seg) call
WLock(w, seg) ==
    /\ wpc[w] = "idle"
    /\ nWrites < MaxWrites
    /\ CanLock(sendMutex)
    /\ sendMutex' = w
    /\ wpc' = [wpc EXCEPT ![w] = "build"]
    /\ wseg' = [wseg EXCEPT ![w] = seg]
    /\ werr' = [werr EXCEPT ![w] = ""]
    /\ wcount' = [wcount EXCEPT ![w] = 0]
    /\ nWrites' = nWrites + 1
    /\ UNCHANGED <<closes, extVars, sessVars, loopVars, cfgVars, latchVars, cacheVars,
                   outVars, peerVars, inVars,
                   send, recv, wdata, lastRead>>

\* padding drawn, cipher initialised, metadata and payload encrypted
WBuild(w) ==
    /\ wpc[w] = "build"
    /\ \E paddingLen1 \in 0..MaxPad, paddingLen2 \in 0..MaxPad :
          LET r == buildDataToSend(isClient, send, recv, candidates, wseg[w],
                                   paddingLen1, paddingLen2, FreshNonce(conn, FALSE))
          IN /\ (isSessionProtocol(wseg[w].protocol) => paddingLen1 = 0)
             /\ send' = r.send
             /\ wseg' = [wseg EXCEPT ![w] = r.seg]
             /\ wdata' = [wdata EXCEPT ![w] = r.data]
             /\ werr' = [werr EXCEPT ![w] = r.err]
             /\ wpc' = [wpc EXCEPT ![w] = IF r.err = "" THEN "write" ELSE "unlock"]
    /\ UNCHANGED <<closes, extVars, sessVars, loopVars, cfgVars, latchVars, cacheVars,
                   outVars, peerVars, inVars,
                   recv, sendMutex, wcount, nWrites, lastRead>>

\* t.conn.Write(dataToSend)
WWrite(w) ==
    /\ wpc[w] = "write"
    /\ IF connClosed
       THEN /\ werr' = [werr EXCEPT ![w] = "NetworkIO"]
            /\ UNCHANGED <<wireOut, outSent, wcount>>
       ELSE /\ wireOut' = wireOut \o wdata[w]
            /\ outSent' = Append(outSent, [seg |-> wseg[w], n |-> Len(wdata[w])])
            /\ wcount' = [wcount EXCEPT ![w] = wcount[w] + 1]
            /\ UNCHANGED werr
    /\ wdata' = [wdata EXCEPT ![w] = <<>>]
    /\ wpc' = [wpc EXCEPT ![w] = "unlock"]
    /\ UNCHANGED <<closes, extVars, sessVars, loopVars, cfgVars, latchVars, cacheVars,
                   peerVars, inVars,
                   send, recv, sendMutex, wseg, nWrites, lastRead>>

\* the deferred t.sendMutex.Unlock() as writeOneSegment returns
WUnlock(w) ==
    /\ wpc[w] = "unlock"
    /\ sendMutex' = 0
    /\ wpc' = [wpc EXCEPT ![w] = "idle"]
    /\ UNCHANGED <<closes, extVars, sessVars, loopVars, cfgVars, latchVars, cacheVars,
                   outVars, peerVars, inVars,
                   send, recv, wseg, wdata, werr, wcount, nWrites, lastRead>>

\* ------------------------------------------------------------- the peer
\* The peer writes one segment with its own writeOneSegment, drawing the
\* padding lengths paddingLen1 and paddingLen2.
PeerWriteSegment(seg, paddingLen1, paddingLen2) ==
    /\ honest
    /\ ~inEOF
    /\ wireIn = <<>>
    /\ nPeerWrites < MaxPeerWrites
    /\ LET r == buildDataToSend(~isClient, peer.send, peer.recv, peer.candidates, seg,
                                paddingLen1, paddingLen2, FreshNonce(conn, TRUE))
       IN /\ (isSessionProtocol(seg.protocol) => paddingLen1 = 0)
          /\ r.err = ""
          /\ peer' = [peer EXCEPT !.send = r.send]
          /\ wireIn' = wireIn \o r.data
          /\ inSent' = Append(inSent, [seg |-> r.seg, n |-> Len(r.data)])
    /\ nPeerWrites' = nPeerWrites + 1
    /\ UNCHANGED <<closes, extVars, sessVars, loopVars, cfgVars, latchVars, cacheVars,
                   taskVars, outVars,
                   outPos, peerGot, peerErr, honest, send, recv, sendMutex, lastRead>>

\* A write of the peer, with an eavesdropper who keeps the bytes of the first
\* MaxCaptured writes that go over the connection.
PeerWrite(seg) ==
    /\ \E paddingLen1 \in 0..MaxPad, paddingLen2 \in 0..MaxPad :
          PeerWriteSegment(seg, paddingLen1, paddingLen2)
    /\ captured' = IF nPeerWrites = 0 THEN wireIn'
                   ELSE IF nPeerWrites < MaxCaptured
                        THEN captured \o SubSeq(wireIn', Len(wireIn) + 1, Len(wireIn'))
                        ELSE captured

\* The peer reads one segment with its own readOneSegment.
PeerRead ==
    /\ peerErr = ""
    /\ LET r == readOneSegment(~isClient, peer.recv, peer.candidates,
                               Drop(wireOut, outPos), peer.cache, connClosed)
       IN /\ r.status # "block"
          /\ peer' = [peer EXCEPT !.recv = r.recv, !.cache = r.cache]
          /\ outPos' = Len(wireOut) - Len(r.wire)
          /\ peerErr' = r.err
          /\ peerGot' = IF r.status = "ok"
                        THEN Append(peerGot, [seg |-> r.seg,
                                              n |-> Len(wireOut) - Len(r.wire) - outPos])
                        ELSE peerGot
    /\ UNCHANGED <<closes, extVars, sessVars, loopVars, cfgVars, latchVars, cacheVars,
                   taskVars, outVars, inVars,
                   send, recv, sendMutex, lastRead>>

\* ---------------------------------------------------- reads of the underlay
\* One call of t.readOneSegment(): what it returns and what it leaves behind.
\* want and wantN are the segment the peer wrote at this place of the stream
\* and its length in bytes.
ReadOutcome(r) ==
    [status |-> r.status, err |-> r.err, seg |-> r.seg, n |-> Len(wireIn) - Len(r.wire),
     want |-> IF inSent = <<>> THEN NoSegment ELSE Head(inSent).seg,
     wantN |-> IF inSent = <<>> THEN 0 ELSE Head(inSent).n,
     first |-> recv = NilCipher]

ReadStep(r) ==
    /\ r.status # "block"
    /\ recv' = r.recv
    /\ replayCache' = r.cache
    /\ NewSession' = NewSession + r.ns
    /\ KnownSession' = KnownSession + r.ks
    /\ wireIn' = r.wire
    /\ inSent' = IF inSent = <<>> THEN inSent ELSE Tail(inSent)
    /\ lastRead' = ReadOutcome(r)

\* t.readOneSegment() called on its own
TRead ==
    /\ lastRead.status # "err"
    /\ ReadStep(readOneSegment(isClient, recv, candidates, wireIn, replayCache,
                               inEOF \/ connClosed))
    /\ UNCHANGED <<closes, extVars, sessVars, loopVars, cfgVars, latchVars, taskVars,
                   outVars, peerVars,
                   nPeerWrites, honest, captured, send, sendMutex>>

\* The stream from the peer ends: the peer closed, or the network failed.
StreamEnd ==
    /\ ~inEOF
    /\ inEOF' = TRUE
    /\ UNCHANGED <<closes, extVars, sessVars, loopVars, cfgVars, done, connClosed, ctxDone,
                   cacheVars, taskVars, outVars,
                   peerVars, inVars, send, recv, sendMutex, lastRead>>

\* The replay window of the oldest cache entry runs out.
Expire ==
    /\ replayCache # <<>>
    /\ replayCache' = Tail(replayCache)
    /\ UNCHANGED <<closes, extVars, sessVars, loopVars, cfgVars, latchVars, NewSession,
                   KnownSession, taskVars, outVars,
                   peerVars, inVars, send, recv, sendMutex, lastRead>>

\* The process gets its next connection: a new underlay, while the replay cache
\* and its counters live on.  With replay, the connection is an attacker's, who
\* sends the first bytes captured on an earlier connection.
NextConn(replay) ==
    /\ conn < MaxConns
    /\ \A w \in Writers : wpc[w] = "idle"
    /\ replay => captured # <<>>
    /\ conn' = conn + 1
    /\ \E key \in ClientKeys :
          /\ replay => key = clientKey
          /\ NewUnderlay(isClient, key, isClient)
    /\ wireIn' = IF replay THEN captured ELSE <<>>
    /\ honest' = ~replay
    /\ UNCHANGED <<closes, extVars, sessVars, loopVars, ctxDone, cacheVars, captured>>

\* The closing transport: t.conn.Close()
ConnClose ==
    /\ ~connClosed
    /\ connClosed' = TRUE
    /\ UNCHANGED <<closes, extVars, sessVars, loopVars, cfgVars, done, ctxDone, inEOF,
                   cacheVars, taskVars, outVars,
                   peerVars, inVars, send, recv, sendMutex, lastRead>>

\* Writers: a client underlay after dialing, or a server underlay before or
\* after its first read.
InitWire ==
    \E client \in BOOLEAN, key \in ClientKeys, shaken \in BOOLEAN :
        /\ client => ~shaken
        /\ InitUnderlay(client, key, shaken)
        /\ QuietStart

NextWire ==
    \/ \E w \in Writers, seg \in WireSegments : WLock(w, seg)
    \/ \E w \in Writers : WBuild(w)
    \/ \E w \in Writers : WWrite(w)
    \/ \E w \in Writers : WUnlock(w)
    \/ PeerRead
    \/ ConnClose

\* Concurrent writeOneSegment calls on one underlay, and the peer reading.
SpecWire == InitWire /\ [][NextWire]_vars

\* Readers: a server underlay after accepting, or a client underlay after its
\* first write.
InitRead ==
    \E client \in BOOLEAN, key \in ClientKeys :
        /\ InitUnderlay(client, key, client)
        /\ QuietStart

NextRead ==
    \/ \E seg \in WireSegments : PeerWrite(seg)
    \/ TRead
    \/ StreamEnd
    \/ Expire
    \/ \E replay \in BOOLEAN : NextConn(replay)

\* readOneSegment calls on the connections of one process, one after the
\* other, with an eavesdropper who replays captured bytes.
SpecRead == InitRead /\ [][NextRead]_vars

\* ------------------------------------------------------ the session table
\* baseUnderlay.AddSession: no session with ID 0, no two sessions with one ID
AddSessionError(map, sid) ==
    IF sid = 0 THEN "SessionIDReserved"
    ELSE IF sid \in map THEN "SessionIDInUse"
    ELSE ""

\* an AddSession that leaves the ready latch of the session alone
AddSessionNotReady(sid) ==
    /\ sessionMap' = sessionMap \cup {sid}
    /\ recvChan' = [recvChan EXCEPT ![sid] = <<>>]
    /\ loops' = [loops EXCEPT ![sid] = BothLoops]
    /\ sessDone' = [sessDone EXCEPT ![sid] = FALSE]
    /\ ready' = ready
    /\ sconn' = [sconn EXCEPT ![sid] = TRUE]
    /\ sobj' = [sobj EXCEPT ![sid] = @ + 1]

\* an AddSession that leaves the conn of the session as the base underlay set it
AddSessionNoBackRef(sid) ==
    /\ sessionMap' = sessionMap \cup {sid}
    /\ recvChan' = [recvChan EXCEPT ![sid] = <<>>]
    /\ loops' = [loops EXCEPT ![sid] = BothLoops]
    /\ sessDone' = [sessDone EXCEPT ![sid] = FALSE]
    /\ ready' = [ready EXCEPT ![sid] = TRUE]
    /\ sconn' = sconn
    /\ sobj' = [sobj EXCEPT ![sid] = @ + 1]

\* TCPUnderlay.AddSession of a new session with ID sid: the session is in the
\* table, refers to t, its ready latch is closed and its two loops run.
AddSession(sid) ==
    /\ sessionMap' = sessionMap \cup {sid}
    /\ recvChan' = [recvChan EXCEPT ![sid] = <<>>]
    /\ loops' = [loops EXCEPT ![sid] = BothLoops]
    /\ sessDone' = [sessDone EXCEPT ![sid] = FALSE]
    /\ ready' = [ready EXCEPT ![sid] = TRUE]
    /\ sconn' = [sconn EXCEPT ![sid] = TRUE]
    /\ sobj' = [sobj EXCEPT ![sid] = @ + 1]

\* a RemoveSession that leaves an empty underlay open
RemoveSessionKeepOpen(map, sid) ==
    [map |-> map \ {sid}, close |-> FALSE]

\* a RemoveSession that closes the underlay whatever is left in the table
RemoveSessionAlwaysClose(map, sid) ==
    [map |-> map \ {sid}, close |-> TRUE]

\* TCPUnderlay.RemoveSession: the table after the call, and whether the call
\* goes on to t.Close()
RemoveSession(map, sid) ==
    [map |-> map \ {sid}, close |-> map \ {sid} = {}]

\* ------------------------------------------------------------ the handlers
Dispatched(kind, err, cont) == [kind |-> kind, err |-> err, cont |-> cont]

\* an onOpenSessionRequest that drops an invalid request
onOpenSessionRequestDrop(client, map, sid) ==
    IF client THEN Dispatched("err", "InvalidOperation", "")
    ELSE IF AddSessionError(map, sid) # "" THEN Dispatched("ignore", "", "")
    ELSE Dispatched("open", "", "publish")

\* an onOpenSessionRequest that does not look the ID up in the table
onOpenSessionRequestReplace(client, map, sid) ==
    IF client THEN Dispatched("err", "InvalidOperation", "")
    ELSE IF sid = 0 THEN Dispatched("err", "SessionIDReserved", "")
    ELSE Dispatched("open", "", "publish")

\* an onOpenSessionRequest that a client serves like a server
onOpenSessionRequestAnyRole(client, map, sid) ==
    IF sid = 0 THEN Dispatched("err", "SessionIDReserved", "")
    ELSE IF sid \in map THEN Dispatched("err", "SessionIDInUse", "")
    ELSE Dispatched("open", "", "publish")

\* onOpenSessionRequest up to its hand-off of the segment
onOpenSessionRequest(client, map, sid) ==
    IF client THEN Dispatched("err", "InvalidOperation", "")
    ELSE IF sid = 0 THEN Dispatched("err", "SessionIDReserved", "")
    ELSE IF sid \in map THEN Dispatched("err", "SessionIDInUse", "")
    ELSE Dispatched("open", "", "publish")

\* an onOpenSessionResponse that makes the session it does not find
onOpenSessionResponseCreate(client, map, sid) ==
    IF ~client THEN Dispatched("err", "InvalidOperation", "")
    ELSE IF sid \notin map /\ sid # 0 THEN Dispatched("open", "", "top")
    ELSE IF sid \notin map THEN Dispatched("err", "SessionNotFound", "")
    ELSE Dispatched("handoff", "", "top")

\* onOpenSessionResponse up to its hand-off of the segment
onOpenSessionResponse(client, map, sid) ==
    IF ~client THEN Dispatched("err", "InvalidOperation", "")
    ELSE IF sid \notin map THEN Dispatched("err", "SessionNotFound", "")
    ELSE Dispatched("handoff", "", "top")

\* onCloseSession up to its hand-off of the segment
onCloseSession(map, sid) ==
    IF sid \notin map THEN Dispatched("err", "SessionNotFound", "")
    ELSE Dispatched("handoff", "", "wait")

\* a data-ack branch that makes the session it does not find
onDataAckCreate(map, sid) ==
    IF sid \in map THEN Dispatched("handoff", "", "top")
    ELSE Dispatched("open", "", "top")

\* a data-ack branch that stops the loop when it does not find the session
onDataAckStrict(map, sid) ==
    IF sid \in map THEN Dispatched("handoff", "", "top")
    ELSE Dispatched("err", "SessionNotFound", "")

\* the data-ack branch of RunEventLoop up to its hand-off of the segment
onDataAck(map, sid) ==
    IF sid \in map THEN Dispatched("handoff", "", "top")
    ELSE Dispatched("ignore", "", "")

\* a RunEventLoop body that stops at a close-connection segment
DispatchCloseConnStops(client, map, seg) ==
    IF seg.protocol \in {closeConnRequest, closeConnResponse}
    THEN Dispatched("err", "ConnectionClosed", "")
    ELSE IF isSessionProtocol(seg.protocol)
    THEN CASE seg.protocol = openSessionRequest ->
                  onOpenSessionRequest(client, map, seg.sessionID)
           [] seg.protocol = openSessionResponse ->
                  onOpenSessionResponse(client, map, seg.sessionID)
           [] OTHER -> onCloseSession(map, seg.sessionID)
    ELSE onDataAck(map, seg.sessionID)

\* The body of RunEventLoop for the segment readOneSegment returned.
Dispatch(client, map, seg) ==
    IF isSessionProtocol(seg.protocol)
    THEN CASE seg.protocol = openSessionRequest ->
                  onOpenSessionRequest(client, map, seg.sessionID)
           [] seg.protocol = openSessionResponse ->
                  onOpenSessionResponse(client, map, seg.sessionID)
           [] seg.protocol \in {closeSessionRequest, closeSessionResponse} ->
                  onCloseSession(map, seg.sessionID)
           [] OTHER -> Dispatched("ignore", "", "")
    ELSE IF isDataAckProtocol(seg.protocol)
    THEN onDataAck(map, seg.sessionID)
    ELSE Dispatched("ignore", "", "")

\* TCPUnderlay.Close, called when no other call of it is under way: nothing
\* to do on an underlay that is done, else baseUnderlay.Close() and
\* t.conn.Close()
Close ==
    /\ done' = TRUE
    /\ connClosed' = TRUE
    /\ closes' = IF done THEN closes
                 ELSE [base |-> closes.base + 1, conn |-> closes.conn + 1]

\* ------------------------------------------------------------ RunEventLoop
\* a top of the loop that looks at the context only
LoopTopCtxOnly ==
    /\ loop.pc = "top"
    /\ loop' = IF ctxDone THEN Returned("") ELSE LoopAt("read")
    /\ UNCHANGED <<closes, extVars, wireVars, sessVars, nRead, ownerClosed>>

\* The select at the top of the loop: return nil when the context is
\* cancelled or the underlay is done, else go on to readOneSegment.
LoopTop ==
    /\ loop.pc = "top"
    /\ loop' = IF ctxDone \/ done THEN Returned("") ELSE LoopAt("read")
    /\ UNCHANGED <<closes, extVars, wireVars, sessVars, nRead, ownerClosed>>

\* readOneSegment returns, and the loop handles what it returned up to the
\* place where it may block: an error ends the loop, a segment for a session
\* is held for the session's recvChan, anything else is dropped.
LoopRead ==
    /\ loop.pc = "read"
    /\ LET r == readOneSegment(isClient, recv, candidates,
                               IF connClosed THEN <<>> ELSE wireIn, replayCache,
                               inEOF \/ connClosed)
           d == Dispatch(isClient, sessionMap, r.seg)
       IN /\ r.status # "block"
          /\ recv' = r.recv
          /\ replayCache' = r.cache
          /\ NewSession' = NewSession + r.ns
          /\ KnownSession' = KnownSession + r.ks
          /\ wireIn' = r.wire
          /\ inSent' = IF inSent = <<>> THEN inSent ELSE Tail(inSent)
          /\ nRead' = IF r.status = "ok" THEN nRead + 1 ELSE nRead
          /\ IF r.status = "err"
             THEN /\ loop' = Returned(r.err)
                  /\ UNCHANGED sessVars
             ELSE CASE d.kind = "err" ->
                         /\ loop' = Returned(d.err)
                         /\ UNCHANGED sessVars
                    [] d.kind = "open" ->
                         /\ AddSession(r.seg.sessionID)
                         /\ loop' = Holding(r.seg, nRead + 1, r.seg.sessionID, d.cont)
                         /\ UNCHANGED readySessions
                    [] d.kind = "handoff" ->
                         /\ loop' = Holding(r.seg, nRead + 1, r.seg.sessionID, d.cont)
                         /\ UNCHANGED sessVars
                    [] OTHER ->
                         /\ loop' = Skipped(r.seg)
                         /\ UNCHANGED sessVars
    /\ UNCHANGED <<closes, extVars, cfgVars, latchVars, taskVars, outVars, peerVars,
                   nPeerWrites,
                   honest, captured, send, sendMutex, lastRead, ownerClosed>>

\* a hand-off to the session with the lowest ID
HandOffTargetFirst(l, map) == IF map = {} THEN l.to ELSE CHOOSE s \in map : \A u \in map : s <= u

\* the session whose recvChan gets the segment the loop holds
HandOffTarget(l, map) == l.to

\* a queue that takes the newest segment in front
PutFirst(q, e) == <<e>> \o q

\* session.recvChan <- seg
Put(q, e) == Append(q, e)

\* a channel that always takes one more
NeverFull(q) == TRUE

\* a send on the buffered channel q returns only when q has room
HasRoom(q) == Len(q) < ChanCap

\* session.recvChan <- seg returns: the channel had room.  A close-session
\* handler goes on to session.wg.Wait(), onOpenSessionRequest to
\* t.readySessions <- session, the others back to the top of the loop.
LoopHandOff ==
    /\ loop.pc = "handoff"
    /\ LET s == HandOffTarget(loop, sessionMap) IN
          /\ HasRoom(recvChan[s])
          /\ recvChan' = [recvChan EXCEPT ![s] = Put(@, [seg |-> loop.seg, idx |-> loop.idx])]
    /\ loop' = IF loop.cont = "top" THEN LoopAt("top")
               ELSE [LoopAt(loop.cont) EXCEPT !.to = loop.to]
    /\ UNCHANGED <<closes, extVars, wireVars, sessionMap, loops, sessDone, ready, sconn, sobj,
                   readySessions,
                   nRead, ownerClosed>>

\* t.readySessions <- session returns
LoopPublish ==
    /\ loop.pc = "publish"
    /\ HasRoom(readySessions)
    /\ readySessions' = Append(readySessions, loop.to)
    /\ loop' = LoopAt("top")
    /\ UNCHANGED <<closes, extVars, wireVars, sessionMap, recvChan, loops, sessDone, ready,
                   sconn, sobj,
                   nRead, ownerClosed>>

\* an onCloseSession that removes the session without session.wg.Wait()
LoopRemoveNoWait ==
    /\ loop.pc = "wait"
    /\ LET r == RemoveSession(sessionMap, loop.to) IN
          /\ sessionMap' = r.map
          /\ IF r.close /\ ~done
             THEN Close
             ELSE UNCHANGED <<done, connClosed, closes>>
    /\ loop' = LoopAt("top")
    /\ UNCHANGED <<extVars, cfgVars, ctxDone, inEOF, cacheVars, taskVars, outVars, peerVars,
                   inVars,
                   send, recv, sendMutex, lastRead, recvChan, loops, sessDone, ready,
                   sconn, sobj, readySessions, nRead, ownerClosed>>

\* session.wg.Wait() returns in onCloseSession, which calls t.RemoveSession
LoopRemove ==
    /\ loop.pc = "wait"
    /\ loops[loop.to] = {}
    /\ LET r == RemoveSession(sessionMap, loop.to) IN
          /\ sessionMap' = r.map
          /\ IF r.close /\ ~done
             THEN Close
             ELSE UNCHANGED <<done, connClosed, closes>>
    /\ loop' = LoopAt("top")
    /\ UNCHANGED <<extVars, cfgVars, ctxDone, inEOF, cacheVars, taskVars, outVars, peerVars,
                   inVars,
                   send, recv, sendMutex, lastRead, recvChan, loops, sessDone, ready,
                   sconn, sobj, readySessions, nRead, ownerClosed>>

\* ------------------------------------------------------------ the sessions
\* The input loop of session s takes the next segment from recvChan; a
\* close-session segment closes the session.
SessTake(s) ==
    /\ "input" \in loops[s]
    /\ recvChan[s] # <<>>
    /\ recvChan' = [recvChan EXCEPT ![s] = Tail(@)]
    /\ sessDone' = [sessDone EXCEPT ![s] =
                      @ \/ Head(recvChan[s]).seg.protocol
                               \in {closeSessionRequest, closeSessionResponse}]
    /\ UNCHANGED <<closes, extVars, wireVars, loopVars, sessionMap, loops, ready, sconn, sobj,
                   readySessions>>

\* A loop of session s exits: the session or its underlay is done.
SessLoopExit(s, l) ==
    /\ l \in loops[s]
    /\ sessDone[s] \/ done
    /\ loops' = [loops EXCEPT ![s] = @ \ {l}]
    /\ UNCHANGED <<closes, extVars, wireVars, loopVars, sessionMap, recvChan, sessDone,
                   ready, sconn, sobj,
                   readySessions>>

\* The accept side takes a session from t.readySessions.
Accept ==
    /\ readySessions # <<>>
    /\ readySessions' = Tail(readySessions)
    /\ UNCHANGED <<closes, extVars, wireVars, loopVars, sessionMap, recvChan, loops,
                   sessDone, ready, sconn, sobj>>

\* The mux of a client registers a new session on the underlay.
ClientAddSession(sid) ==
    /\ isClient
    /\ ~done
    /\ AddSessionError(sessionMap, sid) = ""
    /\ AddSession(sid)
    /\ UNCHANGED <<closes, extVars, wireVars, loopVars, readySessions>>

\* ------------------------------------------------------- the environment
\* The owner of the underlay closes it once RunEventLoop has returned.
OwnerClose ==
    /\ loop.pc = "returned"
    /\ ~ownerClosed
    /\ ownerClosed' = TRUE
    /\ Close
    /\ UNCHANGED <<extVars, sessVars, loop, nRead, cfgVars, ctxDone, inEOF, cacheVars,
                   taskVars, outVars, peerVars, inVars, send, recv, sendMutex, lastRead>>

\* An attacker on the path changes a byte of the segment in flight.
Tamper(k) ==
    /\ honest
    /\ k \in 1..Len(wireIn)
    /\ wireIn[k][1] # PadCell
    /\ wireIn' = [wireIn EXCEPT ![k] = newPadding(1)[1]]
    /\ honest' = FALSE
    /\ UNCHANGED <<closes, extVars, sessVars, loopVars, cfgVars, latchVars, cacheVars,
                   taskVars, outVars,
                   peerVars, inSent, nPeerWrites, captured, send, recv, sendMutex, lastRead>>

\* A peer of a later protocol version writes a segment with a tag this
\* version does not know: authentic metadata, no payload, no padding.
PeerWriteFuture(sid) ==
    /\ honest
    /\ ~inEOF
    /\ wireIn = <<>>
    /\ nPeerWrites < MaxPeerWrites
    /\ LET seg == Segment(futureProtocol, sid, <<>>)
           init == maybeInitSendBlockCipher(~isClient, peer.send, peer.recv, peer.candidates)
           m == Encrypt(init.send, MarshalSession(seg), TRUE, FreshNonce(conn, TRUE))
       IN /\ init.err = ""
          /\ peer' = [peer EXCEPT !.send = m.c]
          /\ wireIn' = m.out
          /\ inSent' = Append(inSent, [seg |-> seg, n |-> Len(m.out)])
    /\ nPeerWrites' = nPeerWrites + 1
    /\ UNCHANGED <<closes, extVars, sessVars, loopVars, cfgVars, latchVars, cacheVars,
                   taskVars, outVars,
                   outPos, peerGot, peerErr, honest, captured, send, recv, sendMutex,
                   lastRead>>

\* A write of the peer with the longest padding, nobody listening.
PeerSend(seg) ==
    /\ PeerWriteSegment(seg, IF isSessionProtocol(seg.protocol) THEN 0 ELSE MaxPad, MaxPad)
    /\ UNCHANGED captured

\* the segments the peer writes in the event-loop specification
LoopSegments ==
    {Segment(p, 0, <<>>) : p \in {closeConnRequest, closeConnResponse}}
    \cup {Segment(openSessionRequest, sid, <<>>) : sid \in SessionIDs}
    \cup {Segment(p, sid, <<>>) : p \in {openSessionResponse, closeSessionRequest},
                                  sid \in SIDs}
    \cup {Segment(dataProtocol, sid, Payload(MaxPayload)) : sid \in SIDs}
    \cup {Segment(p, MaxSessionID, <<>>) : p \in {closeSessionResponse, ackProtocol}}

\* a nonce drawn on a connection before the first one of the specification
EarlierNonce == FreshNonce(MaxConns + 1, TRUE)

\* A server underlay after accepting, or a client underlay with one session
\* after its open request; the server's connection may be an attacker's, who
\* replays the first bytes of an earlier connection.
Init ==
    \E client \in BOOLEAN, key \in ClientKeys, replayed \in BOOLEAN :
        /\ InitUnderlay(client, key, client)
        /\ client => key = NumUsers
        /\ replayed => ~client
        /\ IF replayed
           THEN LET old == Handshake(key, EarlierNonce).data IN
                /\ wireIn = old
                /\ honest = FALSE
                /\ replayCache = <<Take(old, DefaultOverhead)>>
           ELSE QuietStart

Next ==
    \/ LoopTop
    \/ LoopRead
    \/ LoopHandOff
    \/ LoopPublish
    \/ LoopRemove
    \/ \E s \in SIDs : SessTake(s)
    \/ \E s \in SIDs, l \in BothLoops : SessLoopExit(s, l)
    \/ Accept
    \/ \E sid \in SIDs : ClientAddSession(sid)
    \/ \E seg \in LoopSegments : PeerSend(seg)
    \/ \E sid \in {1} : PeerWriteFuture(sid)
    \/ \E k \in {1} : Tamper(k)
    \/ StreamEnd
    \/ OwnerClose

\* RunEventLoop on one underlay, with its sessions, its peer and its owner.
Spec == Init /\ [][Next]_vars

\* readOneSegment can return: ENABLED <<LoopRead>>_vars
CanRead ==
    /\ loop.pc = "read"
    /\ readOneSegment(isClient, recv, candidates, IF connClosed THEN <<>> ELSE wireIn,
                      replayCache, inEOF \/ connClosed).status # "block"

\* WF_vars(LoopRead)
FairRead == []<>(~CanRead) \/ []<><<LoopRead>>_vars

\* The scheduler runs every task that can run: the event loop, and the loops
\* of every session but session 1, which may stop draining its recvChan.
FairSpec ==
    /\ Spec
    /\ WF_vars(LoopTop)
    /\ FairRead
    /\ WF_vars(LoopHandOff)
    /\ WF_vars(LoopPublish)
    /\ WF_vars(LoopRemove)
    /\ \A s \in SIDs \ {1} : WF_vars(SessTake(s))
    /\ \A s \in SIDs \ {1}, l \in BothLoops : WF_vars(SessLoopExit(s, l))

\* ------------------------------------------------- closing and cancelling
\* Close, step by step, for calls that may overlap.  The select at its top:
\* return nil on an underlay that is done, else go on.
CloseEnter(c) ==
    /\ closers[c].pc \in {"idle", "returned"}
    /\ closers' = [closers EXCEPT ![c] = IF done THEN [pc |-> "returned", ret |-> "nil"]
                                         ELSE [pc |-> "base", ret |-> ""]]
    /\ UNCHANGED <<wireVars, sessVars, loopVars, closes, ctor, logVars, stepVars>>

\* t.baseUnderlay.Close(): the done latch is set
CloseBase(c) ==
    /\ closers[c].pc = "base"
    /\ done' = TRUE
    /\ closes' = [closes EXCEPT !.base = @ + 1]
    /\ closers' = [closers EXCEPT ![c].pc = "conn"]
    /\ UNCHANGED <<sessVars, loopVars, ctor, logVars, stepVars, cfgVars, connClosed, ctxDone, inEOF,
                   cacheVars, taskVars, outVars, peerVars, inVars, send, recv, sendMutex,
                   lastRead>>

\* return t.conn.Close(): an error on a connection that is closed already
CloseConn(c) ==
    /\ closers[c].pc = "conn"
    /\ connClosed' = TRUE
    /\ closes' = [closes EXCEPT !.conn = @ + 1]
    /\ closers' = [closers EXCEPT ![c] = [pc |-> "returned",
                                          ret |-> IF connClosed THEN "ErrClosed" ELSE "nil"]]
    /\ UNCHANGED <<sessVars, loopVars, ctor, logVars, stepVars, cfgVars, done, ctxDone, inEOF,
                   cacheVars, taskVars, outVars, peerVars, inVars, send, recv, sendMutex,
                   lastRead>>

\* The context given to RunEventLoop is cancelled.
Cancel ==
    /\ ~ctxDone
    /\ ctxDone' = TRUE
    /\ UNCHANGED <<sessVars, loopVars, closes, extVars, cfgVars, done, connClosed, inEOF,
                   cacheVars, taskVars, outVars, peerVars, inVars, send, recv, sendMutex,
                   lastRead>>

\* the segments the peer writes in the specification of closing
LifeSegments ==
    {Segment(p, 1, <<>>) : p \in {openSessionRequest, closeSessionRequest}}
    \cup {Segment(dataProtocol, 1, Payload(MaxPayload))}

\* A server underlay after accepting, or a client underlay with one session
\* after its open request.
InitLife ==
    \E client \in BOOLEAN :
        /\ InitUnderlay(client, NumUsers, client)
        /\ QuietStart

NextLife ==
    \/ LoopTop
    \/ LoopRead
    \/ LoopHandOff
    \/ LoopPublish
    \/ LoopRemove
    \/ \E s \in SIDs : SessTake(s)
    \/ \E s \in SIDs, l \in BothLoops : SessLoopExit(s, l)
    \/ Accept
    \/ \E seg \in LifeSegments : PeerSend(seg)
    \/ Cancel
    \/ \E c \in Closers : CloseEnter(c)
    \/ \E c \in Closers : CloseBase(c)
    \/ \E c \in Closers : CloseConn(c)

\* RunEventLoop on one underlay while its context is cancelled and the mux,
\* its sessions and its owner close it.
SpecLife == InitLife /\ [][NextLife]_vars

\* The scheduler runs every task that can run: the event loop, the loops of
\* every session, the accept side, and every Close call under way.
FairLife ==
    /\ SpecLife
    /\ WF_vars(LoopTop)
    /\ FairRead
    /\ WF_vars(LoopHandOff)
    /\ WF_vars(LoopPublish)
    /\ WF_vars(LoopRemove)
    /\ \A s \in SIDs : WF_vars(SessTake(s))
    /\ \A s \in SIDs, l \in BothLoops : WF_vars(SessLoopExit(s, l))
    /\ WF_vars(Accept)
    /\ \A c \in Closers : WF_vars(CloseBase(c))
    /\ \A c \in Closers : WF_vars(CloseConn(c))

\* ---------------------------------------------------------- construction
\* the networks NewTCPUnderlay accepts
TCPNetworks == {"tcp", "tcp4", "tcp6"}

\* the networks a caller may ask for
Networks == TCPNetworks \cup {"udp"}

\* what a call of NewTCPUnderlay gives: an underlay or an error, and the
\* number of DialContext calls it made
Made(t, err, dials) == [t |-> t, err |-> err, dials |-> dials]

\* a NewTCPUnderlay that takes any block cipher
NewTCPUnderlayAnyCipher(network, stateless, laddr, reachable) ==
    IF network \notin TCPNetworks THEN Made(FALSE, "UnsupportedNetwork", 0)
    ELSE IF laddr = "bad" THEN Made(FALSE, "ResolveFailed", 0)
    ELSE IF ~reachable THEN Made(FALSE, "DialFailed", 1)
    ELSE Made(TRUE, "", 1)

\* NewTCPUnderlay(ctx, network, laddr, raddr, mtu, block): stateless is
\* block.IsStateless(), laddr "" for none or "bad" for one that does not
\* resolve, reachable whether the dial of raddr succeeds
NewTCPUnderlay(network, stateless, laddr, reachable) ==
    IF network \notin TCPNetworks THEN Made(FALSE, "UnsupportedNetwork", 0)
    ELSE IF stateless THEN Made(FALSE, "StatelessCipher", 0)
    ELSE IF laddr = "bad" THEN Made(FALSE, "ResolveFailed", 0)
    ELSE IF ~reachable THEN Made(FALSE, "DialFailed", 1)
    ELSE Made(TRUE, "", 1)

\* The caller's NewTCPUnderlay call returns.
Construct ==
    /\ ~ctor.called
    /\ LET m == NewTCPUnderlay(ctor.network, ctor.stateless, ctor.laddr, ctor.reachable) IN
          ctor' = [ctor EXCEPT !.called = TRUE, !.t = m.t, !.err = m.err, !.dials = m.dials]
    /\ UNCHANGED <<wireVars, sessVars, loopVars, closes, closers, logVars, stepVars>>

\* A caller about to make a client underlay: the arguments of its call, and
\* the fields the underlay will have if the call makes one.
InitNew ==
    \E network \in Networks, stateless \in BOOLEAN, laddr \in {"", "bad"},
       reachable \in BOOLEAN :
        /\ InitFields(TRUE, NumUsers, FALSE)
        /\ QuietStart
        /\ ctor = [network |-> network, stateless |-> stateless, laddr |-> laddr,
                   reachable |-> reachable, called |-> FALSE, t |-> FALSE, err |-> "",
                   dials |-> 0]

\* the underlay NewTCPUnderlay returned is there to use
NextNew ==
    \/ Construct
    \/ ctor.t /\ \E w \in Writers, seg \in WireSegments : WLock(w, seg)
    \/ ctor.t /\ \E w \in Writers : WBuild(w)
    \/ ctor.t /\ \E w \in Writers : WWrite(w)
    \/ ctor.t /\ \E w \in Writers : WUnlock(w)
    \/ ctor.t /\ PeerRead
    \/ ctor.t /\ ConnClose

\* NewTCPUnderlay, and writeOneSegment calls on the underlay it returns.
SpecNew == InitNew /\ [][NextNew]_vars

\* ------------------------------------------------------------ package log
\* the exported functions that log at level Fatal
FatalFunctions == {"Fatalf", "Fatal", "Fatalln"}

\* the exported log functions the program calls
LogFunctions == FatalFunctions \cup {"Errorf", "Print"}

\* the level at which the function logs on the standard logger
Level(fn) ==
    IF fn \in FatalFunctions THEN "fatal"
    ELSE IF fn = "Errorf" THEN "error"
    ELSE "info"

\* the function looks at StdDisable before it calls the standard logger
Guarded(fn) == fn # "Print"

\* A call of the exported function fn: nothing at all when the function is
\* guarded and StdDisable is set, else the call of the standard logger, which
\* writes the message and, at level Fatal, exits with status 1.
LogCall(fn) ==
    /\ exitStatus = -1
    /\ Len(called) < MaxCalls
    /\ called' = Append(called, fn)
    /\ IF Guarded(fn) /\ StdDisable
       THEN UNCHANGED <<logged, exitStatus>>
       ELSE /\ logged' = Append(logged, [level |-> Level(fn), fn |-> fn])
            /\ exitStatus' = IF Level(fn) = "fatal" THEN 1 ELSE exitStatus
    /\ UNCHANGED <<wireVars, sessVars, loopVars, closes, closers, ctor, StdDisable, stepVars>>

Fatalf == LogCall("Fatalf")

Fatal == LogCall("Fatal")

Fatalln == LogCall("Fatalln")

\* The program assigns the exported variable StdDisable.
SetStdDisable(b) ==
    /\ exitStatus = -1
    /\ StdDisable # b
    /\ StdDisable' = b
    /\ UNCHANGED <<wireVars, sessVars, loopVars, closes, closers, ctor, stepVars, called, logged,
                   exitStatus>>

\* a program that has just made an underlay, package log as it is loaded
InitLog ==
    /\ InitUnderlay(TRUE, NumUsers, TRUE)
    /\ QuietStart

NextLog ==
    \/ Fatalf
    \/ Fatal
    \/ Fatalln
    \/ \E fn \in LogFunctions \ FatalFunctions : LogCall(fn)
    \/ \E b \in BOOLEAN : SetStdDisable(b)

\* The calls a program makes of the exported functions of package log.
SpecLog == InitLog /\ [][NextLog]_vars

\* -------------------------------------------- reader and writers together
\* the segments the peer writes while the underlay writes too
DuplexSegments ==
    {Segment(openSessionRequest, 1, <<>>), Segment(dataProtocol, 1, Payload(MaxPayload))}

\* readOneSegment has the bytes of a segment and starts on t.recv: the nil
\* checks, the assignment of the first read, the Decrypt calls
ReadBegin ==
    /\ rpc = "idle"
    /\ lastRead.status # "err"
    /\ readOneSegment(isClient, recv, candidates, wireIn, replayCache,
                      inEOF \/ connClosed).status # "block"
    /\ rpc' = "using"
    /\ UNCHANGED <<wireVars, sessVars, loopVars, closes, closers, ctor, logVars, adding, remover>>

\* readOneSegment returns: t.recv is assigned or has moved on by then
ReadEnd ==
    /\ rpc = "using"
    /\ ReadStep(readOneSegment(isClient, recv, candidates, wireIn, replayCache,
                               inEOF \/ connClosed))
    /\ rpc' = "idle"
    /\ UNCHANGED <<closes, closers, ctor, logVars, adding, remover, sessVars, loopVars, cfgVars,
                   latchVars, taskVars, outVars, peerVars,
                   nPeerWrites, honest, captured, send, sendMutex>>

\* An underlay of either role right after it was made, nothing exchanged yet.
InitDuplex ==
    \E client \in BOOLEAN :
        /\ InitUnderlay(client, NumUsers, FALSE)
        /\ QuietStart

NextDuplex ==
    \/ \E seg \in DuplexSegments : PeerSend(seg)
    \/ ReadBegin
    \/ ReadEnd
    \/ \E w \in Writers, seg \in DuplexSegments : WLock(w, seg)
    \/ \E w \in Writers : WBuild(w)
    \/ \E w \in Writers : WWrite(w)
    \/ \E w \in Writers : WUnlock(w)
    \/ PeerRead

\* The task of RunEventLoop reading segments while the output loops of the
\* sessions write segments, the peer doing the same at the other end.
SpecDuplex == InitDuplex /\ [][NextDuplex]_vars

\* ------------------------------------------------- AddSession, by step
\* t.baseUnderlay.AddSession(s) returns nil in a call the mux of a client
\* makes for a session it has just made: the session is in the table, its
\* conn is not t yet, its ready latch is open and no loop of it runs.
AddSessionInsert(sid) ==
    /\ isClient
    /\ ~done
    /\ adding = 0
    /\ AddSessionError(sessionMap, sid) = ""
    /\ adding' = sid
    /\ sessionMap' = sessionMap \cup {sid}
    /\ sobj' = [sobj EXCEPT ![sid] = @ + 1]
    /\ recvChan' = [recvChan EXCEPT ![sid] = <<>>]
    /\ loops' = [loops EXCEPT ![sid] = {}]
    /\ sessDone' = [sessDone EXCEPT ![sid] = FALSE]
    /\ ready' = [ready EXCEPT ![sid] = FALSE]
    /\ sconn' = [sconn EXCEPT ![sid] = FALSE]
    /\ UNCHANGED <<closes, closers, ctor, logVars, rpc, remover, wireVars, loopVars, readySessions>>

\* a call that starts the loops and leaves the conn of the session alone
AddSessionFinishNoBackRef ==
    /\ adding # 0
    /\ adding' = 0
    /\ sconn' = sconn
    /\ ready' = [ready EXCEPT ![adding] = TRUE]
    /\ loops' = [loops EXCEPT ![adding] = BothLoops]
    /\ UNCHANGED <<closes, closers, ctor, logVars, rpc, remover, wireVars, loopVars, readySessions,
                   sessionMap, sobj, recvChan, sessDone>>

\* the rest of the call: s.conn = t, close(s.ready), s.wg.Add(2) and the two
\* loops started
AddSessionFinish ==
    /\ adding # 0
    /\ adding' = 0
    /\ sconn' = [sconn EXCEPT ![adding] = TRUE]
    /\ ready' = [ready EXCEPT ![adding] = TRUE]
    /\ loops' = [loops EXCEPT ![adding] = BothLoops]
    /\ UNCHANGED <<closes, closers, ctor, logVars, rpc, remover, wireVars, loopVars, readySessions,
                   sessionMap, sobj, recvChan, sessDone>>

NextAdd ==
    \/ LoopTop
    \/ LoopRead
    \/ LoopHandOff
    \/ LoopPublish
    \/ LoopRemove
    \/ \E s \in SIDs : SessTake(s)
    \/ \E s \in SIDs, l \in BothLoops : SessLoopExit(s, l)
    \/ Accept
    \/ \E sid \in SIDs : AddSessionInsert(sid)
    \/ AddSessionFinish
    \/ \E seg \in LoopSegments : PeerSend(seg)
    \/ StreamEnd
    \/ OwnerClose

\* RunEventLoop on one underlay while the mux registers sessions on it, the
\* steps of AddSession interleaved with the event loop and the session loops.
SpecAdd == Init /\ [][NextAdd]_vars


\* --------------------------------------------------- RemoveSession, by step
\* what a step of RemoveSession leaves alone besides the session table, the
\* latch and the transport
removeFrame == <<closers, ctor, logVars, rpc, adding, cfgVars, ctxDone, inEOF, cacheVars,
                 taskVars, outVars, peerVars, inVars, send, recv, sendMutex, lastRead,
                 recvChan, loops, sessDone, ready, sconn, sobj, readySessions, nRead,
                 ownerClosed>>

\* onCloseSession after session.wg.Wait(): t.baseUnderlay.RemoveSession(s)
LoopRemoveBase ==
    /\ loop.pc = "wait"
    /\ loops[loop.to] = {}
    /\ sessionMap' = RemoveSession(sessionMap, loop.to).map
    /\ loop' = [loop EXCEPT !.pc = "removed"]
    /\ UNCHANGED <<done, connClosed, closes, remover, removeFrame>>

\* RemoveSession reads len(t.baseUnderlay.sessionMap)
LoopRemoveLen ==
    /\ loop.pc = "removed"
    /\ loop' = IF sessionMap = {} THEN [loop EXCEPT !.pc = "closing"] ELSE LoopAt("top")
    /\ UNCHANGED <<sessionMap, done, connClosed, closes, remover, removeFrame>>

\* RemoveSession calls t.Close() and returns to the event loop
LoopRemoveClose ==
    /\ loop.pc = "closing"
    /\ Close
    /\ loop' = LoopAt("top")
    /\ UNCHANGED <<sessionMap, remover, removeFrame>>

\* baseUnderlay.RemoveSession called with a session the table does not hold
RemoveSessionError(map, sid) == IF sid \in map THEN "" ELSE "SessionNotFound"

\* A task other than the event loop and other than the one inside AddSession
\* can hold the session registered under sid: no AddSession call is still
\* registering it, and a session opened by the peer has been published and
\* accepted.
HeldOutside(sid) ==
    /\ adding # sid
    /\ ~(loop.pc \in {"handoff", "publish"} /\ loop.cont = "publish" /\ loop.to = sid)
    /\ \A i \in 1..Len(readySessions) : readySessions[i] # sid

\* A task other than the event loop calls t.RemoveSession(s), with a session
\* it holds or with one that is not registered:
\* t.baseUnderlay.RemoveSession(s)
RemoveBase(sid) ==
    /\ remover.pc = "idle"
    /\ remover.n < MaxRemoves
    /\ sid \in sessionMap => HeldOutside(sid)
    /\ sessionMap' = RemoveSession(sessionMap, sid).map
    /\ remover' = [pc |-> "removed", sid |-> sid,
                   err |-> RemoveSessionError(sessionMap, sid), n |-> remover.n + 1]
    /\ UNCHANGED <<done, connClosed, closes, loop, removeFrame>>

\* the call reads len(t.baseUnderlay.sessionMap), and returns err if there is
\* a session left
RemoveLen ==
    /\ remover.pc = "removed"
    /\ remover' = IF sessionMap = {} THEN [remover EXCEPT !.pc = "closing"]
                  ELSE [NoRemove EXCEPT !.n = remover.n]
    /\ UNCHANGED <<sessionMap, done, connClosed, closes, loop, removeFrame>>

\* the call runs t.Close() and returns err
RemoveClose ==
    /\ remover.pc = "closing"
    /\ Close
    /\ remover' = [NoRemove EXCEPT !.n = remover.n]
    /\ UNCHANGED <<sessionMap, loop, removeFrame>>

\* what the peer sends while sessions come and go: it opens session 1, sends
\* data on it and closes it
RemoveSegments ==
    {Segment(p, 1, <<>>) : p \in {openSessionRequest, closeSessionRequest}}
    \cup {Segment(dataProtocol, 1, Payload(MaxPayload))}

\* an underlay of either role, with or without a first session
InitRemove ==
    \E client \in BOOLEAN, shaken \in BOOLEAN :
        /\ InitUnderlay(client, NumUsers, shaken)
        /\ QuietStart

NextRemove ==
    \/ LoopTop
    \/ LoopRead
    \/ LoopHandOff
    \/ LoopPublish
    \/ LoopRemoveBase
    \/ LoopRemoveLen
    \/ LoopRemoveClose
    \/ \E s \in SIDs : SessTake(s)
    \/ \E s \in SIDs, l \in BothLoops : SessLoopExit(s, l)
    \/ Accept
    \/ \E sid \in SIDs : AddSessionInsert(sid)
    \/ AddSessionFinish
    \/ \E sid \in SIDs : RemoveBase(sid)
    \/ RemoveLen
    \/ RemoveClose
    \/ \E seg \in RemoveSegments : PeerSend(seg)

\* RunEventLoop on one underlay while other tasks register sessions on it and
\* remove sessions from it, the steps of AddSession and of RemoveSession
\* interleaved.
SpecRemove == InitRemove /\ [][NextRemove]_vars

\* ================================================================ claims
\* The bytes b are one complete segment in the wire layout: the metadata
\* ciphertext (behind a nonce if it is the first of the connection), the
\* prefix padding of a data-ack segment, the payload ciphertext when the
\* metadata announces a payload, the suffix padding, and nothing else.
WholeSegment(b) ==
    LET hasNonce == Len(b) > 0 /\ b[1][1] = NonceCell
        off == IF hasNonce THEN DefaultNonceSize ELSE 0
        mlen == metadataLength + DefaultOverhead
    IN /\ Len(b) >= off + mlen
       /\ hasNonce => IsNonce(Take(b, off))
       /\ LET mc == SubSeq(b, off + 1, off + mlen)
              m == mc[Len(mc)][7]
              pre == IF isSessionProtocol(Field(m, 1)) THEN 0 ELSE Field(m, 4)
              plen == IF Field(m, 3) > 0 THEN Field(m, 3) + DefaultOverhead ELSE 0
              suf == Field(m, 5)
              pads == SubSeq(b, off + mlen + 1, off + mlen + pre)
                      \o SubSeq(b, off + mlen + pre + plen + 1, Len(b))
              pc == SubSeq(b, off + mlen + pre + 1, off + mlen + pre + plen)
          IN /\ IsCiphertext(mc, mc[1][2], mc[1][3], mc[1][4])
             /\ hasNonce => mc[1][3] = b[1][3] /\ mc[1][4] = 0
             /\ Len(b) = off + mlen + pre + plen + suf
             /\ \A i \in 1..Len(pads) : pads[i][1] = PadCell
             /\ plen > 0 => /\ IsCiphertext(pc, mc[1][2], mc[1][3], mc[1][4] + 1)
                            /\ Len(pc[Len(pc)][7]) = Field(m, 3)

RECURSIVE Framed(_, _)
\* wire is the concatenation of one complete segment per entry of sent
Framed(wire, sent) ==
    IF sent = <<>> THEN wire = <<>>
    ELSE /\ Len(wire) >= Head(sent).n
         /\ WholeSegment(Take(wire, Head(sent).n))
         /\ Framed(Drop(wire, Head(sent).n), Tail(sent))

InCritical(w) == wpc[w] \in {"build", "write", "unlock"}

\* C1: at most one task at a time is between Lock and Unlock of sendMutex,
\* every call that succeeds has made exactly one conn.Write, and the bytes on
\* the transport are a concatenation of complete segments, one per Write.
C1_FramingAtomicity ==
    /\ Cardinality({w \in Writers : InCritical(w)}) <= 1
    /\ \A w \in Writers : InCritical(w) => sendMutex = w
    /\ \A w \in Writers : wcount[w] <= 1
    /\ \A w \in Writers : wpc[w] = "unlock" /\ werr[w] = "" => wcount[w] = 1
    /\ Framed(wireOut, outSent)

\* two calls have written, the second segment behind the first
C1_Witness ==
    /\ Len(outSent) = 2
    /\ Len(wireOut) = outSent[1].n + outSent[2].n
    /\ \E w \in Writers : wpc[w] = "unlock" /\ wcount[w] = 1

SameSegment(a, b) ==
    /\ a.protocol = b.protocol
    /\ a.sessionID = b.sessionID
    /\ a.payload = b.payload

\* C2: the peer's successive readOneSegment calls return the segments that
\* writeOneSegment wrote, in the order written, each read consuming exactly the
\* bytes of its segment; a read fails only if the transport is closed or the
\* client's key is not enabled on the server, and never waits for bytes when a
\* written segment is unread.
C2_RoundTrip ==
    /\ Len(peerGot) <= Len(outSent)
    /\ \A k \in 1..Len(peerGot) :
          /\ SameSegment(peerGot[k].seg, outSent[k].seg)
          /\ peerGot[k].n = outSent[k].n
    /\ peerErr \in {"", "NetworkIO", "CipherSelectionFailed"}
    /\ peerErr = "NetworkIO" => connClosed
    /\ peerErr = "CipherSelectionFailed" => clientKey \notin 1..NumUsers
    /\ peerErr = "" /\ Len(peerGot) < Len(outSent) =>
          readOneSegment(~isClient, peer.recv, peer.candidates, Drop(wireOut, outPos),
                         peer.cache, connClosed).status # "block"

\* the peer has read a data-ack segment with payload and both paddings behind
\* a first segment that carried the nonce
C2_Witness ==
    /\ Len(peerGot) = 2
    /\ peerGot[2].seg.protocol = dataProtocol
    /\ peerGot[2].seg.payload # <<>>
    /\ outSent[2].seg.prefixLen > 0
    /\ outSent[2].seg.suffixLen > 0
    /\ peerGot[1].n > outSent[1].seg.payloadLen + outSent[1].seg.suffixLen
                      + metadataLength + DefaultOverhead

InCache(cache, prefix) == \E i \in 1..Len(cache) : cache[i] = prefix

FirstReadLen == metadataLength + DefaultOverhead + DefaultNonceSize

\* C3: a first read (receive cipher nil) whose tag prefix is in the replay
\* cache fails with the replay error, leaves the receive cipher nil and the
\* cache as it was, adds exactly 1 to NewSession and nothing to KnownSession.
C3_ReplayRejected ==
    [][(/\ recv = NilCipher
        /\ conn' = conn
        /\ Len(wireIn') < Len(wireIn)
        /\ Len(wireIn) >= FirstReadLen
        /\ InCache(replayCache, Take(wireIn, DefaultOverhead)))
       => (/\ lastRead'.status = "err"
           /\ lastRead'.err = "ReplayDetected"
           /\ recv' = NilCipher
           /\ candidates' = candidates
           /\ replayCache' = replayCache
           /\ NewSession' = NewSession + 1
           /\ KnownSession' = KnownSession)]_vars

\* a replayed first segment was rejected on the second connection
C3_Witness ==
    /\ conn = 2
    /\ ~honest
    /\ lastRead.first
    /\ lastRead.err = "ReplayDetected"
    /\ NewSession = 1
    /\ recv = NilCipher

\* ---------------------------------------------------------------- C4
\* the event loop's hand-off step
HandOffStep == loop.pc = "handoff" /\ loop'.pc # "handoff"

\* C4: every recvChan holds segments addressed to its own session only, in
\* the order of the event loop's reads; a recvChan changes only by its
\* session taking the head, by a new session starting with an empty one, or
\* by the event loop appending, once, the segment it read last, and only to
\* the recvChan of the session the segment is addressed to.
C4_OrderedDelivery ==
    /\ [](\A s \in SIDs : \A i \in 1..Len(recvChan[s]) :
            /\ recvChan[s][i].seg.sessionID = s
            /\ recvChan[s][i].idx <= nRead
            /\ i > 1 => recvChan[s][i - 1].idx < recvChan[s][i].idx)
    /\ [][\A s \in SIDs :
            recvChan'[s] # recvChan[s] =>
               \/ recvChan[s] # <<>> /\ recvChan'[s] = Tail(recvChan[s])
               \/ s \notin sessionMap /\ s \in sessionMap' /\ recvChan'[s] = <<>>
               \/ /\ HandOffStep
                  /\ loop.seg.sessionID = s
                  /\ loop.idx = nRead
                  /\ \A i \in 1..Len(recvChan[s]) : recvChan[s][i].idx < loop.idx
                  /\ recvChan'[s] = Append(recvChan[s], [seg |-> loop.seg, idx |-> loop.idx])
         ]_vars

\* a recvChan holding two segments of its session
C4_Witness ==
    \E s \in SIDs :
        /\ s \in sessionMap
        /\ Len(recvChan[s]) = 2
        /\ recvChan[s][1].idx < recvChan[s][2].idx
        /\ recvChan[s][2].seg.protocol = dataProtocol

\* ---------------------------------------------------------------- C5
\* readOneSegment returns to the event loop
ReadReturns == loop.pc = "read" /\ loop'.pc # "read"

\* The bytes waiting on the transport are a segment the peer wrote, whole and
\* unchanged, and the receive cipher can authenticate it.
Authentic ==
    /\ honest
    /\ ~connClosed
    /\ wireIn # <<>>
    /\ inSent # <<>>
    /\ (~isClient /\ recv = NilCipher) => clientKey <= NumUsers

\* the segment the peer wrote that is next on the transport
Want == Head(inSent).seg

\* the k-th segment of the connection waits on the transport for session b
Pending(b, k) ==
    /\ Authentic
    /\ isDataAckProtocol(Want.protocol)
    /\ Want.sessionID = b
    /\ b \in sessionMap
    /\ nRead + 1 = k
    /\ loop.pc # "returned"

Delivered(b, k) == \E i \in 1..Len(recvChan[b]) : recvChan[b][i].idx = k

\* only the close-session handler for session b takes b out of the table
OnlyOwnCloseRemoves ==
    [][\A b \in SIDs :
          b \in sessionMap /\ b \notin sessionMap' => loop.pc = "wait" /\ loop.to = b]_vars

\* every segment that waits on the transport for session b reaches b's
\* recvChan, unless the event loop returns or b is closed before
EveryArrivalDelivered(b) ==
    \A k \in 1..MaxPeerWrites :
        Pending(b, k) ~> (Delivered(b, k) \/ loop.pc = "returned" \/ b \notin sessionMap)

\* session 1 drains its recvChan and its loops exit once it is done, and the
\* accept side takes the sessions published
OthersDrain ==
    /\ WF_vars(SessTake(1))
    /\ \A l \in BothLoops : WF_vars(SessLoopExit(1, l))
    /\ WF_vars(Accept)

StreamFailures ==
    {"NetworkIO", "CipherSelectionFailed", "DecryptFailed", "ReplayDetected", "FramingError"}

\* the errors of the session-control handlers for a bad session ID
SessionFailures == {"SessionIDReserved", "SessionIDInUse", "SessionNotFound"}

\* session s is in the table of an underlay that is not done, and not closed
Live(s) == s \in sessionMap /\ ~sessDone[s] /\ ~done

\* the reads of bytes that are not an authentic segment fail and stop the
\* event loop with the error of the failure
StreamFailureStops ==
    [][ReadReturns /\ ~Authentic
          => loop'.pc = "returned" /\ loop'.err \in StreamFailures]_vars

\* once the owner has closed the underlay whose event loop returned an error,
\* the latch is set, the transport closed and no session live
StoppedUnderlayIsDead ==
    [](loop.pc = "returned" /\ loop.err # "" /\ ownerClosed
          => done /\ connClosed /\ \A s \in SIDs : ~Live(s))

C8_UnknownTagSkipped ==
    [][ReadReturns /\ Authentic
          /\ ~isSessionProtocol(Want.protocol) /\ ~isDataAckProtocol(Want.protocol)
          => loop'.pc = "top" /\ UNCHANGED recvChan]_vars

\* ---------------------------------------------------------------- C9
\* the open-session request next on the transport of a server has session ID
\* 0 or the ID of a session in the table
BadOpenRequest ==
    /\ ReadReturns
    /\ Authentic
    /\ ~isClient
    /\ Want.protocol = openSessionRequest
    /\ Want.sessionID = 0 \/ Want.sessionID \in sessionMap

ForUnknownSession ==
    /\ ReadReturns
    /\ Authentic
    /\ Want.protocol \in {openSessionResponse, closeSessionRequest, closeSessionResponse}
    /\ Want.sessionID \notin sessionMap

OrphanDataAck ==
    /\ ReadReturns
    /\ Authentic
    /\ isDataAckProtocol(Want.protocol)
    /\ Want.sessionID \notin sessionMap

\* C11: a data-ack segment for a session that is not in the table is dropped
\* without error: the read counts, no recvChan gets the segment, the session
\* table and the sessions stay as they are, the underlay stays open, and the
\* event loop is back at the top of the loop.
C11_OrphanDataAckDropped ==
    [][OrphanDataAck
          => /\ loop' = Skipped(Want)
             /\ loop'.err = ""
             /\ nRead' = nRead + 1
             /\ UNCHANGED sessVars
             /\ UNCHANGED <<done, connClosed>>]_vars

\* the event loop dropped an ack for session MaxSessionID, which is not in
\* the table, and another session is
C11_Witness ==
    /\ loop.pc = "top"
    /\ loop.seg.protocol = ackProtocol
    /\ loop.seg.sessionID \notin sessionMap
    /\ sessionMap # {}
    /\ \A s \in SIDs : \A i \in 1..Len(recvChan[s]) : recvChan[s][i].idx # nRead
    /\ ~done

\* --------------------------------------------------------------- C12
\* the segment next on the transport is one the event loop hands to a session
\* in the table
ForRegisteredSession ==
    /\ Authentic
    /\ Want.sessionID \in sessionMap
    /\ \/ isDataAckProtocol(Want.protocol)
       \/ Want.protocol \in {closeSessionRequest, closeSessionResponse}
       \/ Want.protocol = openSessionResponse /\ isClient

\* C12: a segment read for a session in the table is held by the event loop
\* for that session's recvChan; while it holds the segment the loop reads
\* nothing, and it lets go of it only by appending it to the recvChan, which
\* never holds more than its capacity: with a full recvChan the loop stays
\* where it is until the session takes a segment.
C12_Backpressure ==
    /\ [](\A s \in SIDs : Len(recvChan[s]) <= ChanCap)
    /\ [][ReadReturns /\ ForRegisteredSession
             => /\ loop'.pc = "handoff"
                /\ loop'.seg = Want
                /\ loop'.to = Want.sessionID
                /\ loop'.idx = nRead']_vars
    /\ [][loop.pc = "handoff"
             => \/ /\ loop' = loop
                   /\ nRead' = nRead
                   /\ Len(wireIn') >= Len(wireIn)
                   /\ Len(recvChan[loop.to]) = ChanCap
                         => Len(recvChan'[loop.to]) >= ChanCap - 1
                \/ /\ Len(recvChan[loop.to]) < ChanCap
                   /\ nRead' = nRead
                   /\ wireIn' = wireIn
                   /\ recvChan'[loop.to] =
                         Append(recvChan[loop.to], [seg |-> loop.seg, idx |-> loop.idx])]_vars

\* the event loop holds a data segment for a session whose recvChan is full
C12_Witness ==
    /\ loop.pc = "handoff"
    /\ loop.to \in sessionMap
    /\ loop.seg.protocol = dataProtocol
    /\ Len(recvChan[loop.to]) = ChanCap
    /\ loop.idx = nRead
    /\ ~done

\* --------------------------------------------------------------- C13
\* C13: however many Close calls are made on one underlay, one after the
\* other or at the same time, the done latch is set once and the transport
\* is closed once, and a call that starts on an underlay that is done returns
\* nil and changes nothing.
C13_CloseIdempotent ==
    /\ [](closes.base <= 1 /\ closes.conn <= 1)
    /\ [](\A c \in Closers : closers[c].pc = "returned" => closers[c].ret = "nil")
    /\ [][\A c \in Closers :
            done /\ closers[c].pc \in {"idle", "returned"} /\ closers'[c] # closers[c]
               => /\ closers'[c] = [pc |-> "returned", ret |-> "nil"]
                  /\ UNCHANGED <<done, connClosed, closes>>]_vars

\* --------------------------------------------------------------- C14
\* the event loop is in a hand-off to a recvChan, in the publication of a
\* session on readySessions, or in session.wg.Wait()
InHandler == loop.pc \in {"handoff", "publish", "wait"}

\* C14: from every state in which the context is cancelled or the done latch
\* set while the event loop is in a hand-off, a publication or a wait for a
\* session's loops, RunEventLoop returns.
C14_CancelledLoopReturns ==
    ((ctxDone \/ done) /\ InHandler) ~> loop.pc = "returned"

\* --------------------------------------------------------------- C15
\* the context is cancelled or the done latch is set
Signalled == ctxDone \/ done

\* C15: every iteration of the event loop starts at the select on the
\* context and the done latch: with either signalled RunEventLoop returns
\* nil there and reads nothing, a read starts only from a select that found
\* neither signalled, and so the reads after the signal are one at most;
\* once returned the loop stays returned.
C15_TopOfLoopCheck ==
    /\ [][loop.pc = "top" /\ Signalled /\ loop' # loop
             => loop' = Returned("") /\ nRead' = nRead /\ wireIn' = wireIn]_vars
    /\ [][loop.pc = "top" /\ ~Signalled /\ loop' # loop => loop' = LoopAt("read")]_vars
    /\ [][loop.pc # "read" /\ loop'.pc = "read" => loop.pc = "top" /\ ~Signalled]_vars
    /\ [][nRead' # nRead => loop.pc = "read" /\ nRead' = nRead + 1]_vars
    /\ [][loop.pc = "returned" => loop' = loop]_vars
    /\ \A k \in 0..MaxPeerWrites : [](Signalled /\ nRead = k => [](nRead <= k + 1))

\* the context was cancelled after the loop had read one segment, and
\* RunEventLoop returned nil with the next segment unread on the transport
C15_Witness ==
    /\ loop = Returned("")
    /\ ctxDone
    /\ ~done
    /\ nRead = 1
    /\ wireIn # <<>>
    /\ ~connClosed

\* --------------------------------------------------------------- C16
\* a server underlay that has received nothing: its receive cipher is nil
ServerBeforeReceive == ~isClient /\ recv = NilCipher

\* C16: on a server underlay that has received nothing no writeOneSegment
\* call reaches conn.Write: the send cipher stays nil, the transport stays
\* empty, each call returns the error of the receive cipher that is not
\* ready, and it returns with sendMutex unlocked, which is held only by a
\* call under way.
C16_ServerWriteBeforeReceive ==
    /\ [](ServerBeforeReceive
            => /\ send = NilCipher
               /\ wireOut = <<>>
               /\ outSent = <<>>
               /\ \A w \in Writers :
                     /\ wcount[w] = 0
                     /\ wpc[w] # "write"
                     /\ wpc[w] = "unlock" => werr[w] = "RecvCipherNotReady")
    /\ [](sendMutex # 0 => InCritical(sendMutex))
    /\ [][\A w \in Writers :
            ServerBeforeReceive /\ wpc[w] = "unlock" /\ wpc'[w] # "unlock"
               => /\ wpc'[w] = "idle"
                  /\ werr'[w] = "RecvCipherNotReady"
                  /\ sendMutex' = 0
                  /\ send' = NilCipher]_vars

\* a call failed on a server that has received nothing, and a later call of
\* another task got the lock and failed the same way
C16_Witness ==
    /\ ServerBeforeReceive
    /\ \E w1, w2 \in Writers :
          /\ w1 # w2
          /\ wpc[w1] = "idle"
          /\ werr[w1] = "RecvCipherNotReady"
          /\ wpc[w2] = "unlock"
          /\ werr[w2] = "RecvCipherNotReady"
          /\ sendMutex = w2
    /\ wireOut = <<>>

\* --------------------------------------------------------------- C17
\* the call of NewTCPUnderlay had a stateless cipher or a network that is not
\* a TCP network
BadArguments == ctor.stateless \/ ctor.network \notin TCPNetworks

\* C17: a NewTCPUnderlay call with a stateless block cipher or with a
\* network other than tcp, tcp4 and tcp6 returns an error and no underlay
\* and dials nothing; an underlay, where one is returned, has a stateful
\* cipher, a TCP network and the one connection dialed for it, and without an
\* underlay nothing is written or closed.
C17_ConstructionRejects ==
    /\ [](ctor.called /\ BadArguments => ctor.err # "" /\ ~ctor.t /\ ctor.dials = 0)
    /\ [](ctor.t => /\ ctor.called
                    /\ ~BadArguments
                    /\ ctor.err = ""
                    /\ ctor.dials = 1
                    /\ isClient)
    /\ [](~ctor.t => wireOut = <<>> /\ nWrites = 0 /\ sendMutex = 0 /\ ~connClosed)
    /\ [](~ctor.called => ctor.dials = 0)

\* a call with a TCP network, a peer that can be reached and a stateless
\* cipher returned the error about the cipher
C17_Witness ==
    /\ ctor.called
    /\ ctor.stateless
    /\ ctor.network = "tcp"
    /\ ctor.reachable
    /\ ctor.err = "StatelessCipher"
    /\ ~ctor.t
    /\ ctor.dials = 0

\* --------------------------------------------------------------- C18
\* the ready latch of session s is released
Released(s) == ~ready[s] /\ ready'[s]

\* C18 as stated: the ready latch of a client's session is released only
\* when the event loop hands the session its open-session response; the
\* registration of the session leaves it closed.
C18_ReadyAfterHandshake ==
    [][\A s \in SIDs :
          isClient /\ Released(s)
             => /\ HandOffStep
                /\ loop.to = s
                /\ loop.seg.protocol = openSessionResponse]_vars

\* C18, amended: AddSession itself releases the ready latch: every session
\* in the table has its latch released, the latch is released in the very
\* step that puts the session in the table, and no hand-off, that of the
\* open-session response included, touches a latch.
C18_ReadyOnRegistration ==
    /\ [](\A s \in SIDs : s \in sessionMap => ready[s])
    /\ [][\A s \in SIDs : Released(s) => s \notin sessionMap /\ s \in sessionMap']_vars
    /\ [][HandOffStep => ready' = ready]_vars

\* a client registered session MaxSessionID and its ready latch is released
\* before the peer has written anything
C18_Witness ==
    /\ isClient
    /\ MaxSessionID \in sessionMap
    /\ ready[MaxSessionID]
    /\ nRead = 0
    /\ nPeerWrites = 0
    /\ recvChan[MaxSessionID] = <<>>

\* --------------------------------------------------------------- C19
\* a close-connection request or response is next on the transport, and
\* readOneSegment returns
CloseConnArrives ==
    /\ ReadReturns
    /\ Authentic
    /\ Want.protocol \in {closeConnRequest, closeConnResponse}

\* C19 as stated: the event loop answers a close-connection segment by
\* closing the transport, and writes no reply.
C19_CloseConnClosesTransport ==
    [][CloseConnArrives => connClosed' /\ wireOut' = wireOut]_vars

\* C19, amended: the event loop ignores a close-connection segment: it
\* writes no reply, leaves the transport open and the done latch as it is,
\* hands the segment to no session and goes back to the top of the loop.
C19_CloseConnIgnored ==
    [][CloseConnArrives
          => /\ loop' = Skipped(Want)
             /\ nRead' = nRead + 1
             /\ UNCHANGED <<done, connClosed, closes, wireOut, outSent, sessVars>>]_vars

\* the event loop read a close-connection response and is back at the top of
\* the loop with the transport open
C19_Witness ==
    /\ loop.pc = "top"
    /\ loop.seg.protocol = closeConnResponse
    /\ nRead > 0
    /\ ~connClosed
    /\ ~done
    /\ wireOut = <<>>

\* --------------------------------------------------------------- C20
\* the program calls Fatalf, Fatal or Fatalln
FatalCall ==
    /\ Len(called') = Len(called) + 1
    /\ called'[Len(called')] \in FatalFunctions

\* C20: every call of Fatalf, Fatal or Fatalln writes the message at level
\* Fatal on the standard logger and the process exits with status 1,
\* whatever StdDisable is.
C20_FatalLogsAndExits ==
    [][FatalCall
          => /\ logged' = Append(logged, [level |-> "fatal", fn |-> called'[Len(called')]])
             /\ exitStatus' = 1]_vars

\* --------------------------------------------------------------- C21
\* a call of readOneSegment returns
ReadDone == rpc = "using" /\ rpc' = "idle"

\* C21: the send cipher is initialised before any outbound ciphertext is
\* built or written, the receive cipher is initialised when readOneSegment
\* returns a segment, and the reads that start with the nonce bytes of the
\* stream are exactly those made while the receive cipher is nil: each read
\* then returns the segment the peer wrote and consumes exactly its bytes.
C21_CiphersReadyBeforeUse ==
    /\ [](\A w \in Writers : wdata[w] # <<>> => send # NilCipher)
    /\ [](wireOut # <<>> => send # NilCipher)
    /\ [][ReadDone /\ lastRead'.status = "ok" => recv' # NilCipher]_vars
    /\ [][ReadDone
          => /\ lastRead'.status = "ok"
             /\ lastRead'.seg = Head(inSent).seg
             /\ lastRead'.n = Head(inSent).n
             /\ (recv = NilCipher <=> wireIn[1][1] = NonceCell)
             /\ lastRead'.n >= metadataLength + DefaultOverhead
                               + (IF recv = NilCipher THEN DefaultNonceSize ELSE 0)]_vars

\* a server that has read its first segment and a later one, and has written
C21_Witness ==
    /\ ~isClient
    /\ lastRead.status = "ok"
    /\ ~lastRead.first
    /\ recv # NilCipher
    /\ wireOut # <<>>
    /\ send # NilCipher

\* --------------------------------------------------------------- C22
\* a server's first readOneSegment has the bytes of a first metadata
\* ciphertext and returns
ServerFirstRead ==
    /\ ~isClient
    /\ recv = NilCipher
    /\ conn' = conn
    /\ Len(wireIn') < Len(wireIn)
    /\ Len(wireIn) >= FirstReadLen

\* the candidates that authenticate the first metadata ciphertext on the wire
Authenticating ==
    {i \in 1..Len(candidates) : Decrypt(candidates[i], Take(wireIn, FirstReadLen)).ok}

\* what a server's first read does with the ciphers, whatever else it does
Selected ==
    /\ candidates' = candidates
    /\ Authenticating = {} => lastRead'.status = "err" /\ recv' = NilCipher
    /\ Authenticating # {}
       => LET first == CHOOSE i \in Authenticating : \A j \in Authenticating : i <= j
          IN /\ recv' # NilCipher
             /\ recv'.entry = first
             /\ recv'.key = candidates[first].key
             /\ recv'.implicit = candidates[first].implicit
             /\ recv'.base = Take(wireIn, DefaultNonceSize)[1][3]

\* C22 as stated: on a server's first read the receive cipher becomes
\* initialised if and only if some candidate authenticates the first
\* metadata ciphertext, as a clone of the first such candidate in list order;
\* with none the read fails and the receive cipher stays nil; the candidate
\* list is unchanged.
C22_SelectedIffAuthenticates == [][ServerFirstRead => Selected]_vars

\* C22, amended: the same of a first read whose tag prefix is not in the
\* replay cache; a first read whose prefix is in the cache fails before any
\* candidate is tried and leaves the receive cipher nil, also when a
\* candidate would authenticate the ciphertext.
C22_SelectedUnlessReplayed ==
    [][ServerFirstRead
       => /\ ~InCache(replayCache, Take(wireIn, DefaultOverhead)) => Selected
          /\ InCache(replayCache, Take(wireIn, DefaultOverhead))
             => /\ lastRead'.status = "err"
                /\ recv' = NilCipher
                /\ candidates' = candidates]_vars

\* a server took the first of two candidates that authenticate
C22_Witness ==
    /\ ~isClient
    /\ lastRead.first
    /\ lastRead.status = "ok"
    /\ clientKey = NumUsers
    /\ candidates[NumUsers].key = candidates[NumUsers + 1].key
    /\ recv.entry = NumUsers

\* --------------------------------------------------------------- C23
\* the first bytes of the ciphertexts in b, in order
CtStarts(b) == SelectSeq(b, LAMBDA c : c[1] = CtCell /\ c[5] = 1)

\* the nonce counters of the ciphertexts in b, in order
Ctrs(b) == [i \in 1..Len(CtStarts(b)) |-> CtStarts(b)[i][4]]

\* s counts up from the value from, one by one
Counting(s, from) == \A i \in 1..Len(s) : s[i] = from + i - 1

\* the counter the send cipher gives its next ciphertext
NextCtr(c) == IF c = NilCipher \/ c.base = 0 THEN 0 ELSE c.ctr

\* C23: over any interleaving of writers each counter value of the send
\* cipher goes to exactly one ciphertext (a call takes the next values, one
\* per ciphertext it builds), the ciphertexts are on the transport in the
\* order they were built, under one key and one nonce base, and the peer's
\* receive counter always equals the counter of the next unread ciphertext,
\* so that no read of the peer fails to authenticate.
C23_NonceOrder ==
    /\ [](Counting(Ctrs(wireOut), 0))
    /\ [](\A i \in 1..Len(CtStarts(wireOut)) :
             /\ CtStarts(wireOut)[i][2] = CtStarts(wireOut)[1][2]
             /\ CtStarts(wireOut)[i][3] = CtStarts(wireOut)[1][3])
    /\ [][\A w \in Writers :
            wpc[w] = "build" /\ wpc'[w] = "write"
               => /\ Len(Ctrs(wdata'[w])) >= 1
                  /\ Counting(Ctrs(wdata'[w]), NextCtr(send))
                  /\ NextCtr(send') = NextCtr(send) + Len(Ctrs(wdata'[w]))]_vars
    /\ [][\A w \in Writers :
            wpc[w] = "write" /\ wpc'[w] = "unlock" /\ ~connClosed
               => /\ wireOut' = wireOut \o wdata[w]
                  /\ Counting(Ctrs(wdata[w]), Len(Ctrs(wireOut)))
                  /\ NextCtr(send) = Len(Ctrs(wireOut'))]_vars
    /\ [](peer.recv # NilCipher /\ CtStarts(Drop(wireOut, outPos)) # <<>>
             => CtStarts(Drop(wireOut, outPos))[1][4] = NextCtr(peer.recv))
    /\ [](peerErr # "DecryptFailed")

\* two tasks have each written a segment with a payload and the peer has
\* read both
C23_Witness ==
    /\ \A w \in Writers : wcount[w] = 1
    /\ Len(outSent) = 2
    /\ Ctrs(wireOut) = <<0, 1, 2, 3>>
    /\ Len(peerGot) = 2
    /\ NextCtr(peer.recv) = 4

\* --------------------------------------------------------------- C24
\* the server's first write: maybeInitSendBlockCipher, called by task w under
\* sendMutex, reads t.recv and clones it into t.send
DerivesSendFromRecv(w) ==
    /\ wpc[w] = "build"
    /\ wpc'[w] # "build"
    /\ ~isClient
    /\ send = NilCipher
    /\ recv # NilCipher

\* C24: t.send is touched only by the task that holds sendMutex, and no
\* writer task reads or clones t.recv while a readOneSegment call of the
\* event-loop task is assigning or using it, the server's first write, which
\* derives the send cipher from the receive cipher, included.
C24_CiphersConfined ==
    /\ [][send' # send => \E w \in Writers : sendMutex = w /\ wpc[w] = "build"]_vars
    /\ [][\A w \in Writers : DerivesSendFromRecv(w) => rpc = "idle"]_vars

\* --------------------------------------------------------------- C25
\* t.readySessions <- session returns
PublishStep == loop.pc = "publish" /\ loop'.pc # "publish"

\* C25: on a server, readySessions grows only by the publication that ends
\* onOpenSessionRequest.  The session published is then in the table under
\* its nonzero ID, its conn refers to the underlay, its two loops were
\* started, and the loop came to the publication from the hand-off of the
\* open-session request to the recvChan of the session, which was empty: the
\* request is the first segment the session receives, since the session was
\* made by the read of that request, with an empty recvChan.
C25_PublishedSessionIsSetUp ==
    /\ [][Len(readySessions') > Len(readySessions) => PublishStep]_vars
    /\ [][PublishStep
          => /\ ~isClient
             /\ readySessions' = Append(readySessions, loop.to)
             /\ loop.to # 0
             /\ loop.to \in sessionMap
             /\ sconn[loop.to]
             /\ ready[loop.to]
             /\ loops[loop.to] = BothLoops]_vars
    /\ [][loop.pc # "publish" /\ loop'.pc = "publish"
          => /\ HandOffStep
             /\ loop.seg.protocol = openSessionRequest
             /\ loop.seg.sessionID = loop.to
             /\ loop'.to = loop.to
             /\ recvChan[loop.to] = <<>>
             /\ recvChan'[loop.to] = <<[seg |-> loop.seg, idx |-> loop.idx]>>]_vars
    /\ [][\A s \in SIDs :
            ~isClient /\ sobj'[s] # sobj[s]
               => /\ loop' = Holding(Want, nRead', s, "publish")
                  /\ Want.protocol = openSessionRequest
                  /\ Want.sessionID = s
                  /\ recvChan'[s] = <<>>]_vars

\* a server has published two sessions, the first of which has taken its
\* open-session request from recvChan
C25_Witness ==
    /\ ~isClient
    /\ readySessions = <<1, 2>>
    /\ sessionMap = {1, 2}
    /\ recvChan[1] = <<>>
    /\ Len(recvChan[2]) = 1
    /\ recvChan[2][1].seg.protocol = openSessionRequest

\* --------------------------------------------------------------- C26
\* C26: the session table never has an entry for ID 0, its keys are IDs of
\* sessions, and the session object under a key is never replaced: while an
\* ID stays in the table no session object is registered under it, neither
\* by AddSession nor by the open-request handler; a session object is
\* registered only under an ID that is nonzero and not in the table, one
\* object at a time, and a request that names ID 0 or an ID in the table
\* leaves the table as it is.
C26_TableKeys ==
    /\ [](0 \notin sessionMap)
    /\ [](sessionMap \subseteq SIDs)
    /\ [][\A s \in SIDs : s \in sessionMap /\ s \in sessionMap' => sobj'[s] = sobj[s]]_vars
    /\ [][\A s \in SIDs :
            sobj'[s] # sobj[s]
               => /\ s \notin sessionMap
                  /\ sessionMap' = sessionMap \cup {s}
                  /\ sobj'[s] = sobj[s] + 1
                  /\ \A u \in SIDs \ {s} : sobj'[u] = sobj[u]]_vars
    /\ [][\A s \in SIDs : s \notin sessionMap /\ s \in sessionMap' => sobj'[s] = sobj[s] + 1]_vars
    /\ [][ReadReturns /\ Authentic /\ Want.protocol = openSessionRequest
             /\ (Want.sessionID = 0 \/ Want.sessionID \in sessionMap)
          => sessionMap' = sessionMap /\ sobj' = sobj]_vars

\* a server holds two sessions, each the first object registered under its
\* ID, and has just refused an open-session request for an ID in use
C26_Witness ==
    /\ ~isClient
    /\ sessionMap = {1, 2}
    /\ \A s \in sessionMap : sobj[s] = 1
    /\ nRead = 3
    /\ loop = Returned("SessionIDInUse")

CloseSessionArrives ==
    /\ ReadReturns
    /\ Authentic
    /\ Want.protocol \in {closeSessionRequest, closeSessionResponse}
    /\ Want.sessionID \in sessionMap

Closing == (done' /\ ~done) \/ (connClosed' /\ ~connClosed)

\* C29: while RunEventLoop has not returned, the only step of the underlay
\* that sets the done latch or closes the transport is the RemoveSession
\* that ends onCloseSession and leaves the table empty; no read, dispatch,
\* hand-off, publication or AddSession does, so an underlay nobody closed
\* from outside is open in every state in which its table is non-empty.
C29_OnlyEmptyTableCloses ==
    /\ [][Closing /\ loop.pc # "returned"
          => /\ loop.pc = "wait"
             /\ loop'.pc = "top"
             /\ loop.to \in sessionMap
             /\ sessionMap' = {}
             /\ done'
             /\ connClosed']_vars
    /\ [][Closing /\ loop.pc = "returned" => ownerClosed' /\ ~ownerClosed]_vars
    /\ [](~ownerClosed /\ sessionMap # {} => ~done /\ ~connClosed)

\* one of two sessions was closed and removed, and the underlay, its table
\* not empty, is open and has read on
C29_Witness ==
    /\ sessionMap = {2}
    /\ sobj[1] = 1
    /\ sessDone[1]
    /\ loops[1] = {}
    /\ ~done
    /\ ~connClosed
    /\ nRead = 3
    /\ loop.pc = "top"

\* --------------------------------------------------------------- C30
\* readOneSegment returns an open-session segment the role of the underlay
\* does not serve: a request on a client, a response on a server
WrongRoleOpen ==
    /\ ReadReturns
    /\ Authentic
    /\ \/ isClient /\ Want.protocol = openSessionRequest
       \/ ~isClient /\ Want.protocol = openSessionResponse

\* C30: an open-session request read by a client, or an open-session
\* response read by a server, makes the handler fail with the
\* invalid-operation error and RunEventLoop return that error; no session is
\* made, no recvChan gets the segment, and the table, the sessions and
\* readySessions are as they were; the loop does not close the underlay.
C30_WrongRoleStopsLoop ==
    [][WrongRoleOpen
       => /\ loop' = Returned("InvalidOperation")
          /\ UNCHANGED sessVars
          /\ UNCHANGED <<done, connClosed>>]_vars

\* a client with a session was sent an open-session request for a new ID
\* and its event loop returned the invalid-operation error
C30_Witness ==
    /\ isClient
    /\ loop = Returned("InvalidOperation")
    /\ nRead = 1
    /\ sessionMap = {1}
    /\ sobj = [s \in SIDs |-> IF s = 1 THEN 1 ELSE 0]
    /\ \A s \in SIDs : recvChan[s] = <<>>
    /\ readySessions = <<>>


\* ------------------------------------------------------------------ C31
\* the tag prefixes one readOneSegment call hands to the replay cache, in
\* order, and how many of them the cache already held
RECURSIVE DupCount(_, _)
DupCount(cache, examined) ==
    IF examined = <<>> THEN 0
    ELSE LET d == IsDuplicate(cache, Head(examined))
         IN (IF d.dup THEN 1 ELSE 0) + DupCount(d.cache, Tail(examined))

\* the same call of readOneSegment with a replay cache that holds nothing
FreshRead == readOneSegment(isClient, recv, candidates, wireIn, <<>>,
                            inEOF \/ connClosed)

\* a call of readOneSegment that the first-read replay check lets through
LaterRead ==
    /\ conn' = conn
    /\ Len(wireIn') < Len(wireIn)
    /\ ~(recv = NilCipher /\ InCache(replayCache, Take(wireIn, DefaultOverhead)))

\* C31: a duplicate tag prefix on any read after the first of an underlay
\* (metadata or payload ciphertext) adds one to replay.KnownSession and nothing
\* to replay.NewSession, and the read goes on as if the tag were fresh: it
\* returns the segment or error, consumes the bytes and leaves the recv cipher
\* exactly as the same read with an empty replay cache does.
C31_LaterDuplicateOnlyCounted ==
    [][LaterRead
       => (/\ NewSession' = NewSession
           /\ KnownSession' = KnownSession + DupCount(replayCache, FreshRead.cache)
           /\ lastRead' = ReadOutcome(FreshRead)
           /\ recv' = FreshRead.recv
           /\ wireIn' = FreshRead.wire)]_vars


\* a replayed second segment: its metadata tag is in the cache, the read
\* counts one known-session replay and returns the segment
C31_Witness ==
    /\ ~honest
    /\ KnownSession = 1
    /\ NewSession = 0
    /\ lastRead.status = "ok"
    /\ lastRead.seg.payload = <<>>
    /\ recv.ctr = 2


\* ------------------------------------------------------------------ C32
\* a RemoveSession call that removed a session runs t.Close() and sets the latch
RemoveCloses ==
    /\ ~done
    /\ done'
    /\ \/ loop.pc = "closing" /\ loop'.pc # "closing"
       \/ remover.pc = "closing" /\ remover'.pc # "closing" /\ remover.err = ""

\* C32: whatever the interleaving of AddSession and RemoveSession calls of
\* different tasks on one underlay, a RemoveSession that removed the last
\* session does not close the underlay while an AddSession call has registered
\* another session on it: when it sets the done latch, the session table is
\* empty.
C32_RemoveClosesEmptyUnderlay ==
    [][RemoveCloses => sessionMap' = {}]_vars


\* ------------------------------------------------------------------ C33
\* C33: the event loop hands a segment to the recvChan of a session only while
\* the session is in the session table, whatever RemoveSession call of another
\* task runs between the lookup and the send.
C33_HandOffToRegisteredSession ==
    [][HandOffStep => loop.to \in sessionMap]_vars


\* ------------------------------------------------------------------ C34
\* a step of a RemoveSession call that fails: the session is not registered
FailingRemoveStep ==
    /\ remover' # remover
    /\ remover.err # "" \/ remover'.err # ""

\* C34: a RemoveSession call that fails because the session is not registered
\* on the underlay leaves the underlay as it was: none of its steps changes the
\* session table, the done latch or the transport, also when the table was
\* empty before the call.
C34_FailedRemoveChangesNothing ==
    [][FailingRemoveStep
       => /\ sessionMap' = sessionMap
          /\ done' = done
          /\ connClosed' = connClosed
          /\ closes' = closes]_vars

====
